---------------------------- MODULE Spec2Model ----------------------------
(***************************************************************************)
(* code-morph: tokenizer, token diff, manual highlights and animation      *)
(* phases.  Strings are sequences of one-character strings; positions are  *)
(* 0-based as in the TypeScript source.                                     *)
(***************************************************************************)
EXTENDS Integers, Sequences, FiniteSets, TLC

VARIABLES
    pc,                 \* position of the driver of the specification at hand
    language,           \* tokenizeCode: argument language
    code,               \* tokenizeCode: argument code
    tokens,             \* tokenizeCode: returned CodeToken[]
    tokenCache,         \* tokenizer.ts: const tokenCache (cacheKey -> CodeToken[])
    globalTokenCounter, \* tokenizer.ts: let globalTokenCounter
    returned,           \* every call of tokenizeCode so far, with what it returned
    oldTokens,          \* computeDiff: argument oldTokens
    newTokens,          \* computeDiff: argument newTokens
    diff,               \* computeDiff: returned DiffToken[]
    hlTokens,           \* applyManualHighlights: argument tokens
    highlights,         \* applyManualHighlights: argument highlights
    hlResult,           \* applyManualHighlights: returned RenderToken[]
    timings,            \* ANIMATION_TIMINGS in force
    animationStart,     \* getCurrentAnimationPhase: argument animationStart
    currentTime,        \* getCurrentAnimationPhase: argument currentTime
    phase,              \* getCurrentAnimationPhase: the value last returned
    numStates,          \* App: currentProject.states.length
    currentStateIndex,  \* App: currentProject.currentStateIndex
    isPlaying,          \* App: const [isPlaying, setIsPlaying]
    isAnimating,        \* App: const [isAnimating, setIsAnimating]
    timers,             \* AnimatedCodeDisplay: pending completeTimer delays, in ms
    runElapsed,         \* ms since isAnimating last turned true
    completions,        \* onAnimationComplete() invocations since then
    chainAnimating,     \* chained-setTimeout display: prop isAnimating
    animationPhase,     \* chained-setTimeout display: const [animationPhase, ...]
    chainTimers,        \* chained-setTimeout display: pending setTimeout calls
    chainRun,           \* number of the last run the effect has started
    lastFired,          \* the timer whose callback ran in the last step, if any
    previousCode,       \* modular display: prop previousCode
    currentCode,        \* modular display: prop currentCode
    displayAnimating,   \* modular display: prop isAnimating
    useManualHighlightsOnly, \* modular display: prop useManualHighlightsOnly
    manualHighlights,   \* modular display: prop manualHighlights
    providedLanguage,   \* the prop language App passes: currentState.language
    diffResult,         \* modular display: the memo diffResult
    renderTokens,       \* modular display: the memo renderTokens
    rendered            \* modular display: the lines of TokenComponents rendered

vars == <<pc, language, code, tokens, tokenCache, globalTokenCounter, returned,
          oldTokens, newTokens, diff, hlTokens, highlights, hlResult,
          timings, animationStart, currentTime, phase,
          numStates, currentStateIndex, isPlaying, isAnimating, timers,
          runElapsed, completions,
          chainAnimating, animationPhase, chainTimers, chainRun, lastFired,
          previousCode, currentCode, displayAnimating, useManualHighlightsOnly,
          manualHighlights, providedLanguage, diffResult, renderTokens, rendered>>

displayVars == <<previousCode, currentCode, displayAnimating, useManualHighlightsOnly,
                 manualHighlights, providedLanguage, diffResult, renderTokens, rendered>>

chainVars == <<chainAnimating, animationPhase, chainTimers, chainRun, lastFired>>

animVars == <<numStates, currentStateIndex, isPlaying, isAnimating, timers,
              runElapsed, completions>>

hlVars == <<hlTokens, highlights, hlResult>>

phaseVars == <<timings, animationStart, currentTime, phase>>

tokVars == <<language, code, tokens, tokenCache, globalTokenCounter, returned>>

diffVars == <<oldTokens, newTokens, diff>>

-----------------------------------------------------------------------------
(* Bounds of the exploration *)

MaxLen == 4

MaxCalls == 3

MaxTokens == 3

MaxHlTokens == 2

MaxRanges == 2

MaxElapsed == 6000
\* most states of the current project
MaxStates == 2
\* granularity of the clock of an animation run, in ms
TickStep == 300
\* longest animation run followed, in ms
MaxRunElapsed == 9000
\* most runs the effect of the chained-setTimeout display starts
MaxChainRuns == 3
\* most repetitions of " a" in a current code of the display
MaxRepeat == 10

-----------------------------------------------------------------------------
(* Characters *)

Lower == {"a","b","c","d","e","f","g","h","i","j","k","l","m",
          "n","o","p","q","r","s","t","u","v","w","x","y","z"}

Upper == {"A","B","C","D","E","F","G","H","I","J","K","L","M",
          "N","O","P","Q","R","S","T","U","V","W","X","Y","Z"}

Digits == {"0","1","2","3","4","5","6","7","8","9"}

\* the character ` (code 96), which a TLA+ string cannot hold
Backtick == "BACKTICK"

\* printable ASCII, code 32 first
Ascii == <<" ","!","\"","#","$","%","&","'","(",")","*","+",",","-",".","/",
           "0","1","2","3","4","5","6","7","8","9",":",";","<","=",">","?",
           "@","A","B","C","D","E","F","G","H","I","J","K","L","M","N","O",
           "P","Q","R","S","T","U","V","W","X","Y","Z","[","\\","]","^","_",
           Backtick,"a","b","c","d","e","f","g","h","i","j","k","l","m","n","o",
           "p","q","r","s","t","u","v","w","x","y","z","{","|","}","~">>

\* String.prototype.charCodeAt for the characters of the model
charCodeAt(c) ==
    IF c = "\n" THEN 10
    ELSE IF c = "\t" THEN 9
    ELSE 31 + (CHOOSE i \in 1..Len(Ascii) : Ascii[i] = c)

\* /[a-zA-Z]/
IsLetter(c) == c \in Lower \cup Upper

\* /[0-9]/
IsDigit(c) == c \in Digits

SpaceChars == {" ", "\n", "\t"}

\* /\s/
IsSpace(c) == c \in SpaceChars

\* code[i]; "" stands for undefined (an index past the end)
At(s, i) == IF i >= 0 /\ i < Len(s) THEN s[i + 1] ELSE ""

\* String.prototype.substring(a, b) for 0 <= a
Substring(s, a, b) ==
    LET e == IF b > Len(s) THEN Len(s) ELSE b
    IN  IF a >= e THEN <<>> ELSE SubSeq(s, a + 1, e)

SetMin(S) == CHOOSE x \in S : \A y \in S : x <= y

\* the first position q >= p of s whose character is in stop, or Len(s)
ScanTo(s, p, stop) ==
    LET hits == {q \in p..(Len(s) - 1) : s[q + 1] \in stop}
    IN  IF hits = {} THEN Len(s) ELSE SetMin(hits)

\* the first position q >= p of s whose character is not in keep, or Len(s)
ScanWhile(s, p, keep) ==
    LET hits == {q \in p..(Len(s) - 1) : s[q + 1] \notin keep}
    IN  IF hits = {} THEN Len(s) ELSE SetMin(hits)

RECURSIVE Concat(_)
\* tokens.map(t => t.content).join("")
Concat(ts) ==
    IF ts = <<>> THEN <<>> ELSE Head(ts).content \o Concat(Tail(ts))

-----------------------------------------------------------------------------
(* getSessionId: the 32-bit hash, kept as two 16-bit halves <<hi, lo>> *)

Half == 65536

\* hash = (hash << 5) - hash + char; hash = hash & hash   (31 * hash + char mod 2^32)
HashStep(h, ch) ==
    LET lo == h[2] * 31 + ch
        hi == h[1] * 31 + (lo \div Half)
    IN  <<hi % Half, lo % Half>>

RECURSIVE HashFrom(_, _, _)
\* for (let i = 0; i < code.length; i++), from i with hash = h
\* (h[1] is never negative: the test makes the accumulator a value at every
\* step)
HashFrom(s, i, h) ==
    IF i >= Len(s) \/ h[1] < 0 THEN h
    ELSE HashFrom(s, i + 1, HashStep(h, charCodeAt(s[i + 1])))

\* Math.abs of the signed 32-bit value whose bits are h
AbsHash(h) ==
    IF h[1] < 32768 THEN h
    ELSE <<(65535 - h[1] + (IF h[2] = 0 THEN 1 ELSE 0)) % Half, (Half - h[2]) % Half>>

\* `session-${Math.abs(hash).toString(36)}`: the number names the session
getSessionId(s) == AbsHash(HashFrom(s, 0, <<0, 0>>))

-----------------------------------------------------------------------------
(* tokenizeHTML.  A scanner yields raw tokens [type, content, startPos,    *)
(* subIndex]; WithIds numbers them as the pushes of the source do.         *)

Raw(t, c, start, sub) == [type |-> t, content |-> c, startPos |-> start, subIndex |-> sub]

NoSub == -1

\* /<\/?[a-zA-Z]/ at position p: the position after the letter, or -1
TagOpenEnd(s, p) ==
    IF At(s, p) # "<" THEN -1
    ELSE IF At(s, p + 1) = "/" /\ IsLetter(At(s, p + 2)) THEN p + 3
    ELSE IF IsLetter(At(s, p + 1)) THEN p + 2
    ELSE -1

\* alternative 1 of htmlRegex, /<\/?[a-zA-Z][^>]*>/, at position p: the end of
\* the match (exclusive), or -1 when it does not match there
HtmlTagEnd(s, p) ==
    LET o == TagOpenEnd(s, p)
    IN  IF o = -1 THEN -1
        ELSE LET g == ScanTo(s, o, {">"})
             IN  IF g = Len(s) THEN -1 ELSE g + 1

\* group 5 of tagRegex, /"[^"]*"|'[^']*'|[^\s>]+/, at position q of tag t: the
\* end of the match, or q when the optional group matches nothing
AttrValueEnd(t, q) ==
    LET c  == At(t, q)
        dq == ScanTo(t, q + 1, {"\""})
        sq == ScanTo(t, q + 1, {"'"})
        bare == ScanTo(t, q, SpaceChars \cup {">"})
    IN  IF c = "\"" /\ dq < Len(t) THEN dq + 1
        ELSE IF c = "'" /\ sq < Len(t) THEN sq + 1
        ELSE bare

\* alternative 3 of tagRegex, /([a-zA-Z-]+)(=)(...)?/, at position q: the end
\* of the match, or -1
AttrEnd(t, q) ==
    LET e == ScanWhile(t, q, Lower \cup Upper \cup {"-"})
    IN  IF e > q /\ At(t, e) = "=" THEN AttrValueEnd(t, e + 1) ELSE -1

RECURSIVE TagParts(_, _, _, _)
\* the inner while loop over tagRegex.exec(tagContent), from position q, with
\* subIndex sub; a position where no alternative matches is passed over
TagParts(t, q, startPos, sub) ==
    IF q >= Len(t) THEN <<>>
    ELSE
      LET o == TagOpenEnd(t, q)
          a == AttrEnd(t, q)
      IN  IF o # -1 THEN
            LET e == ScanWhile(t, o, Lower \cup Upper \cup Digits)
            IN  <<Raw("tag", Substring(t, q, e), startPos, sub)>>
                  \o TagParts(t, e, startPos, sub + 1)
          ELSE IF IsSpace(At(t, q)) THEN
            LET e == ScanWhile(t, q, SpaceChars)
            IN  <<Raw("whitespace", Substring(t, q, e), startPos, sub)>>
                  \o TagParts(t, e, startPos, sub + 1)
          ELSE IF a # -1 THEN
            <<Raw("attribute", Substring(t, q, a), startPos, sub)>>
              \o TagParts(t, a, startPos, sub + 1)
          ELSE IF At(t, q) = ">" THEN
            <<Raw("tag", <<">">>, startPos, sub)>>
              \o TagParts(t, q + 1, startPos, sub + 1)
          ELSE TagParts(t, q + 1, startPos, sub)

RECURSIVE HtmlScan(_, _)
\* the outer while loop over htmlRegex.exec(code), from position p
HtmlScan(s, p) ==
    IF p >= Len(s) THEN <<>>
    ELSE
      LET g == HtmlTagEnd(s, p)
      IN  IF g # -1 THEN
            TagParts(Substring(s, p, g), 0, p, 0) \o HtmlScan(s, g)
          ELSE IF IsSpace(At(s, p)) THEN
            LET e == ScanWhile(s, p, SpaceChars)
            IN  <<Raw("whitespace", Substring(s, p, e), p, NoSub)>> \o HtmlScan(s, e)
          ELSE IF At(s, p) # "<" THEN
            LET e == ScanTo(s, p, SpaceChars \cup {"<"})
            IN  <<Raw("text", Substring(s, p, e), p, NoSub)>> \o HtmlScan(s, e)
          ELSE HtmlScan(s, p + 1)

\* an id made of the session, the type and the content alone
TokenIdByContent(session, r, g, l) == <<session, r.type, r.content>>

\* the id template `${sessionId}-${type}-${globalTokenCounter++}-${localCounter++}-${startPos}`
\* (and `-${subIndex}` for the parts of a tag): the fields, in the order written
TokenId(session, r, g, l) ==
    IF r.subIndex = NoSub THEN <<session, r.type, g, l, r.startPos>>
    ELSE <<session, r.type, g, l, r.startPos, r.subIndex>>

\* the k-th push takes globalTokenCounter = g0 + k and localCounter = k (k from 0)
WithIds(raws, session, g0) ==
    [k \in 1..Len(raws) |->
        [type |-> raws[k].type, content |-> raws[k].content,
         id |-> TokenId(session, raws[k], g0 + k - 1, k - 1)]]

tokenizeHTML(s, session, g0) == WithIds(HtmlScan(s, 0), session, g0)

-----------------------------------------------------------------------------
(* tokenizeJavaScript *)

\* the three-character operator table
threeCharOps ==
  {
    <<"=","=","=">>, <<"!","=","=">>, <<">",">",">">>, <<"<","<","=">>, <<">",">","=">>
  }

\* the two-character operator table
twoCharOps ==
  {
    <<"=","=">>, <<"!","=">>, <<"<","=">>, <<">","=">>, <<"&","&">>, <<"|","|">>, <<"+","+">>,
    <<"-","-">>, <<"+","=">>, <<"-","=">>, <<"*","=">>, <<"/","=">>, <<"%","=">>, <<"<","<">>,
    <<">",">">>, <<"=",">">>, <<"?",".">>
  }

\* const keywords
keywords ==
  {
    <<"f","u","n","c","t","i","o","n">>, <<"c","o","n","s","t">>, <<"l","e","t">>, <<"v","a","r">>,
    <<"i","f">>, <<"e","l","s","e">>, <<"f","o","r">>, <<"w","h","i","l","e">>,
    <<"r","e","t","u","r","n">>, <<"c","l","a","s","s">>, <<"i","m","p","o","r","t">>,
    <<"e","x","p","o","r","t">>, <<"d","e","f","a","u","l","t">>, <<"a","s","y","n","c">>,
    <<"a","w","a","i","t">>, <<"t","r","y">>, <<"c","a","t","c","h">>,
    <<"f","i","n","a","l","l","y">>, <<"t","h","r","o","w">>, <<"n","e","w">>, <<"t","h","i","s">>,
    <<"s","u","p","e","r">>, <<"e","x","t","e","n","d","s">>, <<"s","t","a","t","i","c">>,
    <<"p","u","b","l","i","c">>, <<"p","r","i","v","a","t","e">>,
    <<"p","r","o","t","e","c","t","e","d">>, <<"i","n","t","e","r","f","a","c","e">>,
    <<"t","y","p","e">>, <<"t","r","u","e">>, <<"f","a","l","s","e">>, <<"n","u","l","l">>,
    <<"u","n","d","e","f","i","n","e","d">>, <<"t","y","p","e","o","f">>,
    <<"i","n","s","t","a","n","c","e","o","f">>
  }

\* /[{}[\]();,.:=+\-*/%<>!&|]/
OperatorChars ==
    {"{", "}", "[", "]", "(", ")", ";", ",", ".", ":", "=", "+", "-", "*", "/",
     "%", "<", ">", "!", "&", "|"}

\* /[a-zA-Z_$]/
IdentStart == Lower \cup Upper \cup {"_", "$"}

\* /[a-zA-Z0-9_$]/
IdentChars == IdentStart \cup Digits

\* the loop of a block comment opened at i:
\*   end = i + 2; while (end < code.length - 1) { if "*/" at end: end += 2, break; end++ }
BlockCommentEnd(s, i) ==
    LET hits == {q \in (i + 2)..(Len(s) - 2) : At(s, q) = "*" /\ At(s, q + 1) = "/"}
    IN  IF hits # {} THEN SetMin(hits) + 2
        ELSE IF i + 2 > Len(s) - 1 THEN i + 2 ELSE Len(s) - 1

\* the loop of a string literal opened at i by quote:
\*   end = i + 1; while (end < code.length) { if code[end] === quote && code[end-1] !== "\\": end++, break; end++ }
StringEnd(s, i, quote) ==
    LET hits == {q \in (i + 1)..(Len(s) - 1) : At(s, q) = quote /\ At(s, q - 1) # "\\"}
    IN  IF hits # {} THEN SetMin(hits) + 1 ELSE Len(s)

\* every operator taken to be three characters wide
OperatorEndThreeWide(s, i) == i + 3

\* the end of the operator starting at i
OperatorEnd(s, i) ==
    IF Substring(s, i, i + 3) \in threeCharOps THEN i + 3
    ELSE IF Substring(s, i, i + 2) \in twoCharOps THEN i + 2
    ELSE i + 1

\* one iteration of the while loop of tokenizeJavaScript at position i: the raw
\* token pushed and the new value of i
JsStep(s, i) ==
    LET char == At(s, i)
        nextChar == At(s, i + 1)
    IN  IF char = "/" /\ nextChar = "/" THEN
          LET end == ScanTo(s, i + 2, {"\n"})
          IN  <<Raw("comment", Substring(s, i, end), i, NoSub), end>>
        ELSE IF char = "/" /\ nextChar = "*" THEN
          LET end == BlockCommentEnd(s, i)
          IN  <<Raw("comment", Substring(s, i, end), i, NoSub), end>>
        ELSE IF char \in {"\"", "'", Backtick} THEN
          LET end == StringEnd(s, i, char)
          IN  <<Raw("string", Substring(s, i, end), i, NoSub), end>>
        ELSE IF IsSpace(char) THEN
          LET end == ScanWhile(s, i, SpaceChars)
          IN  <<Raw("whitespace", Substring(s, i, end), i, NoSub), end>>
        ELSE IF IsDigit(char) THEN
          LET end == ScanWhile(s, i, Digits \cup {"."})
          IN  <<Raw("number", Substring(s, i, end), i, NoSub), end>>
        ELSE IF char \in OperatorChars THEN
          LET end == OperatorEnd(s, i)
          IN  <<Raw("operator", Substring(s, i, end), i, NoSub), end>>
        ELSE IF char \in IdentStart THEN
          LET end == ScanWhile(s, i, IdentChars)
              content == Substring(s, i, end)
          IN  <<Raw(IF content \in keywords THEN "keyword" ELSE "text", content, i, NoSub), end>>
        ELSE <<Raw("text", <<char>>, i, NoSub), i + 1>>

RECURSIVE JsScan(_, _)
\* while (i < code.length) { ... }
JsScan(s, i) ==
    IF i >= Len(s) THEN <<>>
    ELSE LET st == JsStep(s, i) IN <<st[1]>> \o JsScan(s, st[2])

tokenizeJavaScript(s, session, g0) == WithIds(JsScan(s, 0), session, g0)

-----------------------------------------------------------------------------
(* tokenizeCSS *)

\* const cssProperties
cssProperties ==
  {
    <<"c","o","l","o","r">>, <<"b","a","c","k","g","r","o","u","n","d">>,
    <<"b","a","c","k","g","r","o","u","n","d","-","c","o","l","o","r">>,
    <<"f","o","n","t","-","s","i","z","e">>, <<"f","o","n","t","-","f","a","m","i","l","y">>,
    <<"f","o","n","t","-","w","e","i","g","h","t">>, <<"m","a","r","g","i","n">>,
    <<"p","a","d","d","i","n","g">>, <<"b","o","r","d","e","r">>, <<"w","i","d","t","h">>,
    <<"h","e","i","g","h","t">>, <<"d","i","s","p","l","a","y">>,
    <<"p","o","s","i","t","i","o","n">>, <<"t","o","p">>, <<"l","e","f","t">>,
    <<"r","i","g","h","t">>, <<"b","o","t","t","o","m">>, <<"z","-","i","n","d","e","x">>,
    <<"o","p","a","c","i","t","y">>, <<"t","r","a","n","s","f","o","r","m">>,
    <<"t","r","a","n","s","i","t","i","o","n">>, <<"a","n","i","m","a","t","i","o","n">>,
    <<"f","l","e","x">>, <<"g","r","i","d">>,
    <<"j","u","s","t","i","f","y","-","c","o","n","t","e","n","t">>,
    <<"a","l","i","g","n","-","i","t","e","m","s">>, <<"t","e","x","t","-","a","l","i","g","n">>,
    <<"l","i","n","e","-","h","e","i","g","h","t">>, <<"b","o","x","-","s","h","a","d","o","w">>,
    <<"b","o","r","d","e","r","-","r","a","d","i","u","s">>, <<"o","v","e","r","f","l","o","w">>,
    <<"v","i","s","i","b","i","l","i","t","y">>, <<"c","u","r","s","o","r">>,
    <<"p","o","i","n","t","e","r","-","e","v","e","n","t","s">>,
    <<"u","s","e","r","-","s","e","l","e","c","t">>,
    <<"w","h","i","t","e","-","s","p","a","c","e">>,
    <<"t","e","x","t","-","d","e","c","o","r","a","t","i","o","n">>,
    <<"v","e","r","t","i","c","a","l","-","a","l","i","g","n">>, <<"f","l","o","a","t">>,
    <<"c","l","e","a","r">>, <<"c","o","n","t","e","n","t">>,
    <<"l","i","s","t","-","s","t","y","l","e">>, <<"o","u","t","l","i","n","e">>,
    <<"r","e","s","i","z","e">>, <<"m","i","n","-","w","i","d","t","h">>,
    <<"m","a","x","-","w","i","d","t","h">>, <<"m","i","n","-","h","e","i","g","h","t">>,
    <<"m","a","x","-","h","e","i","g","h","t">>
  }

\* const cssPseudos
cssPseudos ==
  {
    <<"h","o","v","e","r">>, <<"f","o","c","u","s">>, <<"a","c","t","i","v","e">>,
    <<"v","i","s","i","t","e","d">>, <<"f","i","r","s","t","-","c","h","i","l","d">>,
    <<"l","a","s","t","-","c","h","i","l","d">>, <<"n","t","h","-","c","h","i","l","d">>,
    <<"b","e","f","o","r","e">>, <<"a","f","t","e","r">>,
    <<"f","i","r","s","t","-","l","i","n","e">>,
    <<"f","i","r","s","t","-","l","e","t","t","e","r">>
  }

\* const cssValues
cssValues ==
  {
    <<"a","u","t","o">>, <<"n","o","n","e">>, <<"i","n","h","e","r","i","t">>,
    <<"i","n","i","t","i","a","l">>, <<"u","n","s","e","t">>, <<"n","o","r","m","a","l">>,
    <<"b","o","l","d">>, <<"i","t","a","l","i","c">>, <<"u","n","d","e","r","l","i","n","e">>,
    <<"c","e","n","t","e","r">>, <<"l","e","f","t">>, <<"r","i","g","h","t">>,
    <<"b","l","o","c","k">>, <<"i","n","l","i","n","e">>, <<"f","l","e","x">>, <<"g","r","i","d">>,
    <<"a","b","s","o","l","u","t","e">>, <<"r","e","l","a","t","i","v","e">>,
    <<"f","i","x","e","d">>, <<"s","t","a","t","i","c">>, <<"s","t","i","c","k","y">>,
    <<"h","i","d","d","e","n">>, <<"v","i","s","i","b","l","e">>,
    <<"t","r","a","n","s","p","a","r","e","n","t">>, <<"s","o","l","i","d">>,
    <<"d","a","s","h","e","d">>, <<"d","o","t","t","e","d">>
  }

\* /[a-zA-Z_-]/
CssWordStart == Lower \cup Upper \cup {"_", "-"}

\* /[a-zA-Z0-9_-]/
CssWordChars == CssWordStart \cup Digits

\* /[{}();:,.]/
CssOperatorChars == {"{", "}", "(", ")", ";", ":", ",", "."}

\* the type given to a bare word
CssWordType(word) ==
    IF word \in cssProperties THEN "attribute"
    ELSE IF word \in cssPseudos THEN "keyword"
    ELSE IF word \in cssValues THEN "keyword"
    ELSE IF Head(word) \in {"#", "."} THEN "tag"
    ELSE "text"

\* one iteration of the while loop of tokenizeCSS at position i
CssStep(s, i) ==
    LET char == At(s, i)
        nextChar == At(s, i + 1)
    IN  IF char = "/" /\ nextChar = "*" THEN
          LET end == BlockCommentEnd(s, i)
          IN  <<Raw("comment", Substring(s, i, end), i, NoSub), end>>
        ELSE IF char \in {"\"", "'"} THEN
          LET end == StringEnd(s, i, char)
          IN  <<Raw("string", Substring(s, i, end), i, NoSub), end>>
        ELSE IF IsDigit(char) THEN
          LET end == ScanWhile(s, ScanWhile(s, i, Digits \cup {"."}), Lower \cup Upper \cup {"%"})
          IN  <<Raw("number", Substring(s, i, end), i, NoSub), end>>
        ELSE IF char \in CssWordStart THEN
          LET end == ScanWhile(s, i, CssWordChars)
              word == Substring(s, i, end)
          IN  <<Raw(CssWordType(word), word, i, NoSub), end>>
        ELSE IF char \in CssOperatorChars THEN
          <<Raw("operator", <<char>>, i, NoSub), i + 1>>
        ELSE IF char \in {"#", "."} THEN
          LET end == ScanWhile(s, i + 1, CssWordChars)
          IN  <<Raw("tag", Substring(s, i, end), i, NoSub), end>>
        ELSE IF IsSpace(char) THEN
          LET end == ScanWhile(s, i, SpaceChars)
          IN  <<Raw("whitespace", Substring(s, i, end), i, NoSub), end>>
        ELSE <<Raw("text", <<char>>, i, NoSub), i + 1>>

RECURSIVE CssScan(_, _)
\* while (i < code.length) { ... }
CssScan(s, i) ==
    IF i >= Len(s) THEN <<>>
    ELSE LET st == CssStep(s, i) IN <<st[1]>> \o CssScan(s, st[2])

tokenizeCSS(s, session, g0) == WithIds(CssScan(s, 0), session, g0)

-----------------------------------------------------------------------------
(* tokenizeCode and its memo *)

LangHtml == <<"h","t","m","l">>

LangCss == <<"c","s","s">>

LangJavascript == <<"j","a","v","a","s","c","r","i","p","t">>

\* const cacheKey = `${language}:${code}`
CacheKey(lang, src) == lang \o <<":">> \o src

\* a memo that is never consulted
CacheHasNever(cache, key) == FALSE

\* tokenCache.has(cacheKey)
CacheHas(cache, key) == \E e \in cache : e.key = key

\* tokenCache.get(cacheKey)
CacheGet(cache, key) == (CHOOSE e \in cache : e.key = key).value

\* tokenCache.set(cacheKey, tokens)
CacheSet(cache, key, value) ==
    {e \in cache : e.key # key} \cup {[key |-> key, value |-> value]}

\* the scanner tokenizeCode picks for a language tag
Scan(lang, src, session, g0) ==
    IF lang = LangHtml THEN tokenizeHTML(src, session, g0)
    ELSE IF lang = LangCss THEN tokenizeCSS(src, session, g0)
    ELSE tokenizeJavaScript(src, session, g0)

\* tokenizeCode(code, language) run on the module state (cache, counter): the
\* tokens returned and the module state it leaves
tokenizeCode(cache, counter, lang, src) ==
    LET key == CacheKey(lang, src)
    IN  IF CacheHas(cache, key)
        THEN [tokens |-> CacheGet(cache, key), cache |-> cache, counter |-> counter]
        ELSE LET ts == Scan(lang, src, getSessionId(src), counter)
             IN  [tokens |-> ts,
                  cache |-> CacheSet(cache, key, ts),
                  counter |-> counter + Len(ts)]

\* a call of tokenizeCode(src, lang) by some caller
Call(lang, src) ==
    LET r == tokenizeCode(tokenCache, globalTokenCounter, lang, src)
    IN  /\ tokens' = r.tokens
        /\ tokenCache' = r.cache
        /\ globalTokenCounter' = r.counter
        /\ returned' = Append(returned, [language |-> lang, code |-> src, tokens |-> r.tokens])

-----------------------------------------------------------------------------
(* diffAlgorithm.ts *)

\* createContentSignature: `${token.type}:${token.content}`; no type contains
\* a colon, so the string names the pair
createContentSignature(token) == <<token.type, token.content>>

Match(o, n) == [oldIndex |-> o, newIndex |-> n]

RECURSIVE FirstPassAdvancingBoth(_, _, _, _, _)
\* FirstPass as it was before the fix its comment records: a mismatch advances
\* both indices
FirstPassAdvancingBoth(old, new, oldIdx, newIdx, result) ==
    IF oldIdx < Len(old) /\ newIdx < Len(new)
    THEN IF createContentSignature(old[oldIdx + 1]) = createContentSignature(new[newIdx + 1])
         THEN FirstPassAdvancingBoth(old, new, oldIdx + 1, newIdx + 1,
                                     Append(result, Match(oldIdx, newIdx)))
         ELSE FirstPassAdvancingBoth(old, new, oldIdx + 1, newIdx + 1, result)
    ELSE result

RECURSIVE FirstPass(_, _, _, _, _)
\* first pass: while (oldIdx < oldTokens.length && newIdx < newTokens.length)
FirstPass(old, new, oldIdx, newIdx, result) ==
    IF oldIdx < Len(old) /\ newIdx < Len(new)
    THEN IF createContentSignature(old[oldIdx + 1]) = createContentSignature(new[newIdx + 1])
         THEN FirstPass(old, new, oldIdx + 1, newIdx + 1, Append(result, Match(oldIdx, newIdx)))
         ELSE FirstPass(old, new, oldIdx, newIdx + 1, result)
    ELSE result

\* usedOldIndices with the add() calls left out
UsedOldIndicesNeverAdded(result) == {}

\* usedOldIndices: every push onto result adds its oldIndex
UsedOldIndices(result) == {result[k].oldIndex : k \in DOMAIN result}

\* result.some((r) => r.newIndex === newIndex)
NewIsMatched(result, newIndex) == \E k \in DOMAIN result : result[k].newIndex = newIndex

\* oldSig === newSig || (both of type whitespace)
IsMatch(oldToken, newToken) ==
    \/ createContentSignature(oldToken) = createContentSignature(newToken)
    \/ (oldToken.type = "whitespace" /\ newToken.type = "whitespace")

\* a second pass that does not look at the matches made so far
MaintainsOrderUnchecked(result, oldIndex, newIndex) == TRUE

\* the loop over existingMatch that leaves maintainsOrder true
MaintainsOrder(result, oldIndex, newIndex) ==
    \A k \in DOMAIN result :
        /\ ~(result[k].newIndex < newIndex /\ result[k].oldIndex > oldIndex)
        /\ ~(result[k].newIndex > newIndex /\ result[k].oldIndex < oldIndex)

Abs(x) == IF x < 0 THEN -x ELSE x

MaxOf(a, b) == IF a > b THEN a ELSE b

\* A number is an IEEE 754 binary64 value v with 0 <= v < Limb, written in
\* base Limb: one digit before the point and FracLimbs digits after it.  Every
\* arithmetic operation of the score is the exact operation followed by Round.
LimbBits == 20
Limb == 2 ^ LimbBits
FracLimbs == 6
Limbs == FracLimbs + 1
Mantissa == 53

\* the number n, for an integer 0 <= n < Limb
FromInt(n) == [k \in 1..Limbs |-> IF k = 1 THEN n ELSE 0]

RECURSIVE AddFrom(_, _, _, _, _)
AddFrom(a, b, k, carry, acc) ==
    IF k = 0 THEN acc
    ELSE LET s == a[k] + b[k] + carry
         IN  AddFrom(a, b, k - 1, s \div Limb, <<s % Limb>> \o acc)

\* a + b, exactly
LimbsAdd(a, b) == AddFrom(a, b, Limbs, 0, <<>>)

RECURSIVE SubFrom(_, _, _, _, _)
SubFrom(a, b, k, borrow, acc) ==
    IF k = 0 THEN acc
    ELSE LET s == a[k] - b[k] - borrow
         IN  SubFrom(a, b, k - 1, IF s < 0 THEN 1 ELSE 0, <<s % Limb>> \o acc)

\* a - b for a >= b, exactly
LimbsSub(a, b) == SubFrom(a, b, Limbs, 0, <<>>)

\* a < b
LimbsLess(a, b) ==
    \E k \in 1..Limbs : a[k] < b[k] /\ \A h \in 1..(k - 1) : a[h] = b[h]

RECURSIVE MulFrom(_, _, _, _, _)
MulFrom(a, n, k, carry, acc) ==
    IF k = 0 THEN acc
    ELSE LET p == a[k] * n + carry
         IN  MulFrom(a, n, k - 1, p \div Limb, <<p % Limb>> \o acc)

\* a * n for an integer n, exactly
LimbsMul(a, n) == MulFrom(a, n, Limbs, 0, <<>>)

RECURSIVE DivFrom(_, _, _, _, _)
DivFrom(a, n, k, rem, acc) ==
    IF k > Limbs THEN [limbs |-> acc, sticky |-> rem # 0]
    ELSE LET r == rem * Limb + a[k]
         IN  DivFrom(a, n, k + 1, r % n, Append(acc, r \div n))

\* a / n for an integer n: the quotient to FracLimbs places and whether a
\* remainder is left
LimbsDiv(a, n) == DivFrom(a, n, 1, 0, <<>>)

Exact(a) == [limbs |-> a, sticky |-> FALSE]

\* round to nearest, ties to even, at Mantissa significant bits
Round(v) ==
    LET a == v.limbs
        nonzero == {k \in 1..Limbs : a[k] # 0}
    IN  IF nonzero = {} THEN a
        ELSE
          LET top == CHOOSE k \in nonzero : \A h \in nonzero : k <= h
              high == CHOOSE h \in 0..(LimbBits - 1) : 2 ^ h <= a[top] /\ a[top] < 2 ^ (h + 1)
              \* the last bit kept, counted from the highest bit of the first limb
              last == (top - 1) * LimbBits + (LimbBits - 1 - high) + Mantissa - 1
              at == last \div LimbBits + 1
              w == 2 ^ (LimbBits - 1 - (last % LimbBits))
          IN  IF at > Limbs THEN a
              ELSE
                LET low == a[at] % w
                    below == \E k \in (at + 1)..Limbs : a[k] # 0
                    guard == IF w > 1 THEN low >= w \div 2
                             ELSE at < Limbs /\ a[at + 1] >= Limb \div 2
                    rest == \/ v.sticky
                            \/ IF w > 1 THEN low % (w \div 2) # 0 \/ below
                               ELSE /\ at < Limbs
                                    /\ \/ a[at + 1] % (Limb \div 2) # 0
                                       \/ \E k \in (at + 2)..Limbs : a[k] # 0
                    odd == (a[at] \div w) % 2 = 1
                    kept == [k \in 1..Limbs |->
                               IF k < at THEN a[k] ELSE IF k = at THEN a[at] - low ELSE 0]
                    ulp == [k \in 1..Limbs |-> IF k = at THEN w ELSE 0]
                IN  IF guard /\ (rest \/ odd) THEN LimbsAdd(kept, ulp) ELSE kept

\* the operators / * + of the language on numbers, and Math.abs(a - b)
Fdiv(a, n) == Round(LimbsDiv(a, n))
Fmul(a, n) == Round(Exact(LimbsMul(a, n)))
Fadd(a, b) == Round(Exact(LimbsAdd(a, b)))
Fabsdiff(a, b) == Round(Exact(IF LimbsLess(a, b) THEN LimbsSub(b, a) ELSE LimbsSub(a, b)))

\* the literal 0.2 of contentBonus
ContentBonus == Fdiv(FromInt(1), 5)

\* the literal 0.3 of bestScore > 0.3
ScoreThreshold == Fdiv(FromInt(3), 10)

\* let bestScore = -1: every score is at least 0, so the first candidate wins
NoScore == <<-1>>

\* score = proximityScore + contentBonus of a candidate pair
Score(oldIndex, newIndex, oldLen, newLen, exact) ==
    LET expectedOldPosition == Fmul(Fdiv(FromInt(newIndex), newLen), oldLen)
        distance == Fabsdiff(FromInt(oldIndex), expectedOldPosition)
        maxDistance == MaxOf(oldLen, newLen)
        proximityScore == Fabsdiff(FromInt(1), Fdiv(distance, maxDistance))
    IN  IF exact THEN Fadd(proximityScore, ContentBonus) ELSE proximityScore

\* score > bestScore
ScoreAbove(score, bestScore) ==
    IF bestScore = NoScore THEN TRUE ELSE LimbsLess(bestScore, score)

RECURSIVE BestMatch(_, _, _, _, _, _)
\* the loop over oldIndex for one new token: best = [match, score], starting
\* at bestMatch = -1, bestScore = -1
BestMatch(old, new, result, newIndex, oldIndex, best) ==
    IF oldIndex >= Len(old) THEN best
    ELSE
      LET oldToken == old[oldIndex + 1]
          newToken == new[newIndex + 1]
          exact == createContentSignature(oldToken) = createContentSignature(newToken)
      IN  IF /\ oldIndex \notin UsedOldIndices(result)
             /\ IsMatch(oldToken, newToken)
             /\ MaintainsOrder(result, oldIndex, newIndex)
             /\ ScoreAbove(Score(oldIndex, newIndex, Len(old), Len(new), exact), best.score)
          THEN BestMatch(old, new, result, newIndex, oldIndex + 1,
                         [match |-> oldIndex,
                          score |-> Score(oldIndex, newIndex, Len(old), Len(new), exact)])
          ELSE BestMatch(old, new, result, newIndex, oldIndex + 1, best)

RECURSIVE SecondPass(_, _, _, _)
\* second pass: for (let newIndex = 0; newIndex < newTokens.length; newIndex++)
SecondPass(old, new, newIndex, result) ==
    IF newIndex >= Len(new) THEN result
    ELSE IF NewIsMatched(result, newIndex) THEN SecondPass(old, new, newIndex + 1, result)
    ELSE
      LET best == BestMatch(old, new, result, newIndex, 0, [match |-> -1, score |-> NoScore])
      IN  IF best.match # -1 /\ LimbsLess(ScoreThreshold, best.score)
          THEN SecondPass(old, new, newIndex + 1, Append(result, Match(best.match, newIndex)))
          ELSE SecondPass(old, new, newIndex + 1, result)

RECURSIVE SortByNewIndex(_)
\* result.sort((a, b) => a.newIndex - b.newIndex); the sort is stable
SortByNewIndex(result) ==
    IF result = <<>> THEN <<>>
    ELSE
      LET least == SetMin({result[k].newIndex : k \in DOMAIN result})
          at == SetMin({k \in DOMAIN result : result[k].newIndex = least})
      IN  <<result[at]>>
            \o SortByNewIndex([k \in 1..(Len(result) - 1) |->
                                 IF k < at THEN result[k] ELSE result[k + 1]])

findLongestCommonSubsequence(old, new) ==
    SortByNewIndex(SecondPass(old, new, 0, FirstPass(old, new, 0, 0, <<>>)))

\* lcs.find((match) => match.newIndex === newIndex): the index in lcs, or 0
FindMatch(lcs, newIndex) ==
    LET hits == {k \in DOMAIN lcs : lcs[k].newIndex = newIndex}
    IN  IF hits = {} THEN 0 ELSE SetMin(hits)

\* { ...token, status: "added", newIndex }
AddedToken(token, newIndex) ==
    [type |-> token.type, content |-> token.content, id |-> token.id,
     status |-> "added", newIndex |-> newIndex]

\* a removed token given its old position as newIndex
RemovedTokenAtOldPosition(token, oldIndex) ==
    [type |-> token.type, content |-> token.content, id |-> token.id,
     status |-> "removed", oldIndex |-> oldIndex, newIndex |-> oldIndex]

\* { ...oldToken, status: "removed", oldIndex, newIndex: -1 }
RemovedToken(token, oldIndex) ==
    [type |-> token.type, content |-> token.content, id |-> token.id,
     status |-> "removed", oldIndex |-> oldIndex, newIndex |-> -1]

\* an unchanged token without the id override
UnchangedTokenKeepingNewId(newToken, oldToken, oldIndex, newIndex) ==
    [type |-> newToken.type, content |-> newToken.content, id |-> newToken.id,
     status |-> "unchanged", oldIndex |-> oldIndex, newIndex |-> newIndex]

\* { ...newToken, id: oldToken.id, status: "unchanged", oldIndex, newIndex }
UnchangedToken(newToken, oldToken, oldIndex, newIndex) ==
    [type |-> newToken.type, content |-> newToken.content, id |-> oldToken.id,
     status |-> "unchanged", oldIndex |-> oldIndex, newIndex |-> newIndex]

\* the loop "Process each new token"
NewPart(old, new, lcs) ==
    [k \in 1..Len(new) |->
        LET m == FindMatch(lcs, k - 1)
        IN  IF m # 0
            THEN UnchangedToken(new[k], old[lcs[m].oldIndex + 1], lcs[m].oldIndex, k - 1)
            ELSE AddedToken(new[k], k - 1)]

\* every old token listed as removed, matched or not
RemovedPartOfAll(old, used, oldIndex) ==
    [k \in 1..(Len(old) - oldIndex) |-> RemovedToken(old[oldIndex + k], oldIndex + k - 1)]

RECURSIVE RemovedPart(_, _, _)
\* the loop "Add removed tokens", from oldIndex
RemovedPart(old, used, oldIndex) ==
    IF oldIndex >= Len(old) THEN <<>>
    ELSE IF oldIndex \notin used
         THEN <<RemovedToken(old[oldIndex + 1], oldIndex)>> \o RemovedPart(old, used, oldIndex + 1)
         ELSE RemovedPart(old, used, oldIndex + 1)

computeDiff(old, new) ==
    IF Len(old) = 0 THEN [k \in 1..Len(new) |-> AddedToken(new[k], k - 1)]
    ELSE IF Len(new) = 0 THEN [k \in 1..Len(old) |-> RemovedToken(old[k], k - 1)]
    ELSE LET lcs == findLongestCommonSubsequence(old, new)
         IN  NewPart(old, new, lcs) \o RemovedPart(old, UsedOldIndices(lcs), 0)

-----------------------------------------------------------------------------
(* rendering.ts: reconstructCodeFromTokens *)

\* the join without the filter on the status
reconstructCodeFromTokensUnfiltered(ts) == Concat(ts)

\* tokens.filter((token) => token.status !== "removed")
\*       .map((token) => token.content).join("")
reconstructCodeFromTokens(ts) ==
    Concat(SelectSeq(ts, LAMBDA token : token.status # "removed"))

-----------------------------------------------------------------------------
(* rendering.ts: applyManualHighlights *)

\* highlights.some((h) => tokenStart < h.end && tokenEnd > h.start)
IsHighlighted(ranges, tokenStart, tokenEnd) ==
    \E k \in DOMAIN ranges : tokenStart < ranges[k].end /\ tokenEnd > ranges[k].start

\* a cursor that stands still on a highlighted token
NextCharIndexUnlessFlagged(charIndex, token, flagged) ==
    IF flagged THEN charIndex ELSE charIndex + Len(token.content)

\* charIndex = tokenEnd
NextCharIndex(charIndex, token, flagged) == charIndex + Len(token.content)

RECURSIVE HighlightFrom(_, _, _, _)
\* tokens.map(...) from the k-th token on, with the closure variable charIndex
HighlightFrom(ts, ranges, k, charIndex) ==
    IF k > Len(ts) THEN <<>>
    ELSE
      LET tokenStart == charIndex
          tokenEnd == charIndex + Len(ts[k].content)
          isHighlighted == IsHighlighted(ranges, tokenStart, tokenEnd)
      IN  <<[type |-> ts[k].type, content |-> ts[k].content, id |-> ts[k].id,
             isManuallyHighlighted |-> isHighlighted]>>
            \o HighlightFrom(ts, ranges, k + 1, NextCharIndex(charIndex, ts[k], isHighlighted))

applyManualHighlights(ts, ranges) == HighlightFrom(ts, ranges, 1, 0)

-----------------------------------------------------------------------------
(* types.ts: ANIMATION_TIMINGS; rendering.ts: the animation phases *)

POSITIONING_PHASE_DURATION == 1200

PAUSE_BETWEEN_PHASES == 500

ADDING_PHASE_DURATION == 4000

\* the phase durations of ANIMATION_TIMINGS
ANIMATION_TIMINGS ==
    [POSITIONING_PHASE_DURATION |-> POSITIONING_PHASE_DURATION,
     PAUSE_BETWEEN_PHASES |-> PAUSE_BETWEEN_PHASES,
     ADDING_PHASE_DURATION |-> ADDING_PHASE_DURATION]

\* the configuration of the scheduler's test: D_pos = 600, D_pause = 0, D_add = 2500
\* (the durations of the chained-timeout display, which has no pause)
NoPauseTimings ==
    [POSITIONING_PHASE_DURATION |-> 600,
     PAUSE_BETWEEN_PHASES |-> 0,
     ADDING_PHASE_DURATION |-> 2500]

createEducationalAnimationPhases(t) ==
    [positioningPhase |-> [start |-> 0, duration |-> t.POSITIONING_PHASE_DURATION],
     pausePhase |-> [start |-> t.POSITIONING_PHASE_DURATION,
                     duration |-> t.PAUSE_BETWEEN_PHASES],
     addingPhase |-> [start |-> t.POSITIONING_PHASE_DURATION + t.PAUSE_BETWEEN_PHASES,
                      duration |-> t.ADDING_PHASE_DURATION],
     totalDuration |-> t.POSITIONING_PHASE_DURATION + t.PAUSE_BETWEEN_PHASES
                         + t.ADDING_PHASE_DURATION]

\* the boundary tests written with <= 
PhaseOfInclusive(elapsed, phases) ==
    IF elapsed <= phases.positioningPhase.duration THEN "positioning"
    ELSE IF elapsed <= phases.positioningPhase.duration + phases.pausePhase.duration
         THEN "pause"
    ELSE IF elapsed <= phases.totalDuration THEN "adding"
    ELSE "complete"

\* the if / else-if chain of getCurrentAnimationPhase
PhaseOf(elapsed, phases) ==
    IF elapsed < phases.positioningPhase.duration THEN "positioning"
    ELSE IF elapsed < phases.positioningPhase.duration + phases.pausePhase.duration
         THEN "pause"
    ELSE IF elapsed < phases.totalDuration THEN "adding"
    ELSE "complete"

getCurrentAnimationPhase(now, start, t) ==
    PhaseOf(now - start, createEducationalAnimationPhases(t))

-----------------------------------------------------------------------------
(* App and the modular AnimatedCodeDisplay: the completion timer *)

\* const phases = POSITIONING_PHASE_DURATION + PAUSE_BETWEEN_PHASES +
\*                ADDING_PHASE_DURATION
phases ==
    ANIMATION_TIMINGS.POSITIONING_PHASE_DURATION
      + ANIMATION_TIMINGS.PAUSE_BETWEEN_PHASES
      + ANIMATION_TIMINGS.ADDING_PHASE_DURATION

\* an effect cleanup that clears every timer but the oldest
CleanupKeepingOldest(pending) == IF pending = <<>> THEN <<>> ELSE <<Head(pending)>>

\* return () => { clearTimeout(completeTimer); }
Cleanup(pending) == <<>>

\* The effect of AnimatedCodeDisplay at the commit of a render of App.  App
\* builds handleAnimationComplete anew at every render, so the dependency
\* onAnimationComplete differs at every commit: the cleanup of the previous
\* effect runs, then the body.  A display that is not rendered (no current
\* state) has run its cleanup at unmount and has no effect.
DisplayEffect(pending, animating, mounted) ==
    IF mounted /\ animating
    THEN Append(Cleanup(pending), phases)
    ELSE Cleanup(pending)

\* {currentState ? <AnimatedCodeDisplay .../> : ...}
Mounted(n) == n > 0

RemoveAt(seq, k) == SubSeq(seq, 1, k - 1) \o SubSeq(seq, k + 1, Len(seq))

\* the variables of App and the display, in a specification without them
AnimIdle ==
    /\ numStates = 0
    /\ currentStateIndex = 0
    /\ isPlaying = FALSE
    /\ isAnimating = FALSE
    /\ timers = <<>>
    /\ runElapsed = 0
    /\ completions = 0

-----------------------------------------------------------------------------
(* detectLanguage *)

LangPython == <<"p","y","t","h","o","n">>

LangJson == <<"j","s","o","n">>

\* \w
WordChar(c) == IsLetter(c) \/ IsDigit(c) \/ c = "_"

\* w occurs in s at 0-based position i
StartsAt(s, i, w) ==
    /\ i + Len(w) <= Len(s)
    /\ \A k \in 1..Len(w) : s[i + k] = w[k]

\* \b at 0-based position p of s
WordBoundary(s, p) ==
    LET before == p >= 1 /\ WordChar(s[p])
        after == p < Len(s) /\ WordChar(s[p + 1])
    IN  before # after

\* /\b(w1|w2|...)\b/.test(s)
HasWord(s, words) ==
    \E w \in words : \E i \in 0..(Len(s) - Len(w)) :
        StartsAt(s, i, w) /\ WordBoundary(s, i) /\ WordBoundary(s, i + Len(w))

\* /<[^>]+>/.test(s)
HasTag(s) ==
    \E i \in 1..Len(s) : \E j \in (i + 2)..Len(s) :
        /\ s[i] = "<" /\ s[j] = ">"
        /\ \A k \in (i + 1)..(j - 1) : s[k] # ">"

\* /\{[^}]*:[^}]*\}/.test(s)
HasCssBlock(s) ==
    \E i \in 1..Len(s) : \E k \in (i + 1)..Len(s) : \E j \in (k + 1)..Len(s) :
        /\ s[i] = "{" /\ s[k] = ":" /\ s[j] = "}"
        /\ \A m \in (i + 1)..(j - 1) : s[m] # "}"

\* /^\s*[{[]/.test(s.trim())
StartsJson(s) ==
    \E i \in 1..Len(s) :
        /\ s[i] \in {"{", "["}
        /\ \A k \in 1..(i - 1) : IsSpace(s[k])

javascriptWords ==
    { <<"f","u","n","c","t","i","o","n">>, <<"c","o","n","s","t">>, <<"l","e","t">>,
      <<"v","a","r">>, <<"=",">">> }

pythonWords ==
    { <<"d","e","f">>, <<"i","m","p","o","r","t">>, <<"c","l","a","s","s">>,
      <<"i","f"," ","_","_","n","a","m","e","_","_">> }

detectLanguage(s) ==
    IF HasTag(s) THEN LangHtml
    ELSE IF HasWord(s, javascriptWords) THEN LangJavascript
    ELSE IF HasWord(s, pythonWords) THEN LangPython
    ELSE IF HasCssBlock(s) THEN LangCss
    ELSE IF StartsJson(s) THEN LangJson
    ELSE LangHtml

-----------------------------------------------------------------------------
(* The modular AnimatedCodeDisplay: from the props to the rendered tokens *)

LangTypescript == <<"t","y","p","e","s","c","r","i","p","t">>

incompatibleLanguages ==
    { <<LangHtml, LangJavascript>>, <<LangHtml, LangTypescript>>,
      <<LangHtml, LangPython>>, <<LangJavascript, LangHtml>>,
      <<LangTypescript, LangHtml>>, <<LangPython, LangHtml>>,
      <<LangPython, LangJavascript>>, <<LangJavascript, LangPython>> }

\* a display that never sets the previous code aside
shouldIgnorePreviousCodeNever(prev, cur) == FALSE

shouldIgnorePreviousCode(prev, cur) ==
    IF prev = <<>> THEN FALSE
    ELSE LET currentLang == detectLanguage(cur)
             previousLang == detectLanguage(prev)
         IN  \E pair \in incompatibleLanguages :
                \/ currentLang = pair[1] /\ previousLang = pair[2]
                \/ currentLang = pair[2] /\ previousLang = pair[1]

\* tokenizedCodes: both codes are tokenized with the language detected for
\* currentCode, the current one first
TokenizedPair(c, q) ==
    [currentTokens |-> c.tokens, previousTokens |-> q.tokens,
     cache |-> q.cache, counter |-> q.counter]

\* previous: tokenizeCode(previousCode, detectedLanguage), after the call c
\* for the current code
TokenizedAfter(c, detectedLanguage, prev) ==
    TokenizedPair(c, tokenizeCode(c.cache, c.counter, detectedLanguage, prev))

TokenizedWith(cache, counter, detectedLanguage, prev, cur) ==
    TokenizedAfter(tokenizeCode(cache, counter, detectedLanguage, cur),
                   detectedLanguage, prev)

tokenizedCodes(cache, counter, prev, cur) ==
    TokenizedWith(cache, counter, detectLanguage(cur), prev, cur)

\* currentTokens.map((token, index) => ({ ...token, status: "unchanged", newIndex: index }))
StaticTokens(ts) ==
    [k \in 1..Len(ts) |-> [status |-> "unchanged", newIndex |-> k - 1] @@ ts[k]]

\* the memo diffResult
DiffResultOf(prev, cur, animating, tc) ==
    IF prev = <<>> \/ shouldIgnorePreviousCode(prev, cur)
    THEN StaticTokens(tc.currentTokens)
    ELSE IF ~animating
    THEN StaticTokens(tc.currentTokens)
    ELSE computeDiff(tc.previousTokens, tc.currentTokens)

\* function checkManualHighlight(): boolean { return false; }
checkManualHighlight == FALSE

\* the memo renderTokens
RenderTokensOf(diffRes, manualOnly) ==
    LET marked == [k \in 1..Len(diffRes) |->
                      [isManuallyHighlighted |-> checkManualHighlight] @@ diffRes[k]]
    IN  IF manualOnly
        THEN SelectSeq(marked, LAMBDA t : t.isManuallyHighlighted)
        ELSE marked

RECURSIVE Parts(_, _, _)
\* content.split("\n"), from character k with the part cur under way
Parts(content, k, cur) ==
    IF k > Len(content) THEN <<cur>>
    ELSE IF content[k] = "\n" THEN <<cur>> \o Parts(content, k + 1, <<>>)
    ELSE Parts(content, k + 1, Append(cur, content[k]))

\* a part pushed whether empty or not
PushPartsKeepingEmpty(token, parts, idx, st) ==
    [st EXCEPT !.currentLine = @ \o [i \in 1..Len(parts) |-> [token EXCEPT !.content = parts[i]]]]

RECURSIVE PushParts(_, _, _, _)
\* parts.forEach((part, index) => ...) of splitTokensIntoLinesWithNumbers
PushParts(token, parts, idx, st) ==
    IF idx > Len(parts) THEN st
    ELSE
      LET pushed == IF parts[idx] # <<>>
                    THEN [st EXCEPT !.currentLine = Append(@, [token EXCEPT !.content = parts[idx]])]
                    ELSE st
          ended == IF idx < Len(parts)
                   THEN [currentLine |-> <<>>,
                         lineNumber |-> pushed.lineNumber + 1,
                         lines |-> Append(pushed.lines,
                                          [tokens |-> pushed.currentLine,
                                           lineNumber |-> pushed.lineNumber])]
                   ELSE pushed
      IN  PushParts(token, parts, idx + 1, ended)

RECURSIVE SplitFrom(_, _, _)
\* tokens.forEach((token) => ...) of splitTokensIntoLinesWithNumbers, from
\* token k
SplitFrom(ts, k, st) ==
    IF k > Len(ts)
    THEN IF Len(st.currentLine) > 0
         THEN Append(st.lines, [tokens |-> st.currentLine, lineNumber |-> st.lineNumber])
         ELSE st.lines
    ELSE IF \E c \in DOMAIN ts[k].content : ts[k].content[c] = "\n"
    THEN SplitFrom(ts, k + 1, PushParts(ts[k], Parts(ts[k].content, 1, <<>>), 1, st))
    ELSE SplitFrom(ts, k + 1, [st EXCEPT !.currentLine = Append(@, ts[k])])

splitTokensIntoLinesWithNumbers(ts) ==
    SplitFrom(ts, 1, [currentLine |-> <<>>, lineNumber |-> 1, lines |-> <<>>])

\* ANIMATION_TIMINGS.EXISTING_ELEMENT_DURATION: 0.8 s, in ms
EXISTING_ELEMENT_DURATION == 800
\* ANIMATION_TIMINGS.NEW_ELEMENT_DURATION: 1.2 s, in ms
NEW_ELEMENT_DURATION == 1200
\* ANIMATION_TIMINGS.NEW_ELEMENT_STAGGER_DELAY: 0.15 s, in ms
NEW_ELEMENT_STAGGER_DELAY == 150

\* getAnimationProps of TokenComponent: when the transition of the token
\* starts and how long it lasts, in ms after the mount of the token
getAnimationProps(token, index, animating) ==
    IF ~animating
    THEN [mode |-> "static", delay |-> 0, duration |-> 0]
    ELSE IF token.status = "added"
    THEN [mode |-> "added",
          delay |-> (POSITIONING_PHASE_DURATION + PAUSE_BETWEEN_PHASES)
                      + index * NEW_ELEMENT_STAGGER_DELAY,
          duration |-> NEW_ELEMENT_DURATION]
    ELSE IF token.status = "removed"
    THEN [mode |-> "removed", delay |-> 0, duration |-> EXISTING_ELEMENT_DURATION \div 2]
    ELSE [mode |-> "unchanged", delay |-> 0, duration |-> EXISTING_ELEMENT_DURATION]

\* splitTokensIntoLinesWithNumbers(renderTokens).map(({ tokens, lineNumber }) =>
\*   tokens.map((token, index) => <TokenComponent token index isAnimating />))
RenderedLines(ts, animating) ==
    LET lines == splitTokensIntoLinesWithNumbers(ts)
    IN  [l \in 1..Len(lines) |->
            [lineNumber |-> lines[l].lineNumber,
             tokens |-> [i \in 1..Len(lines[l].tokens) |->
                            [token |-> lines[l].tokens[i],
                             index |-> i - 1,
                             props |-> getAnimationProps(lines[l].tokens[i], i - 1, animating)]]]]

\* the variables of the modular display, in a specification without it
DisplayIdle ==
    /\ previousCode = <<>>
    /\ currentCode = <<>>
    /\ displayAnimating = FALSE
    /\ useManualHighlightsOnly = FALSE
    /\ manualHighlights = <<>>
    /\ providedLanguage = <<>>
    /\ diffResult = <<>>
    /\ renderTokens = <<>>
    /\ rendered = <<>>

-----------------------------------------------------------------------------
(* The chained-setTimeout AnimatedCodeDisplay: its phase effect *)

\* no timer callback ran in the last step
NoTimer == [kind |-> "none", delay |-> 0, run |-> 0]

\* setTimeout(() => { setAnimationPhase("adding"); ... }, POSITIONING_PHASE_DURATION)
AddingTimer(run) ==
    [kind |-> "adding", delay |-> NoPauseTimings.POSITIONING_PHASE_DURATION, run |-> run]

\* setTimeout(() => { setAnimationPhase("complete"); onAnimationComplete(); },
\*            ADDING_PHASE_DURATION)
CompleteTimer(run) ==
    [kind |-> "complete", delay |-> NoPauseTimings.ADDING_PHASE_DURATION, run |-> run]

\* The effect at a commit where isAnimating or onAnimationComplete differs
\* from the previous commit.  It returns no cleanup: the timers of earlier
\* runs stay pending.
ChainEffect(animating) ==
    IF ~animating
    THEN /\ animationPhase' = "idle"
         /\ UNCHANGED <<chainTimers, chainRun>>
    ELSE /\ animationPhase' = "positioning"
         /\ chainRun' = chainRun + 1
         /\ chainTimers' = chainTimers \cup {AddingTimer(chainRun + 1)}

\* the memo changes for a transition with one kept, one added and one removed
\* token: every current token is "keep" when isAnimating is false, the diff
\* otherwise
changes(animating) ==
    IF ~animating
    THEN <<[type |-> "keep", content |-> <<"a">>], [type |-> "keep", content |-> <<"b">>]>>
    ELSE <<[type |-> "keep", content |-> <<"a">>], [type |-> "add", content |-> <<"b">>],
           [type |-> "remove", content |-> <<"c">>]>>

\* visibleChanges of renderTokens: changes.filter(...)
visibleChanges(cs, ph) ==
    SelectSeq(cs, LAMBDA change :
        IF change.type = "remove" THEN FALSE
        ELSE IF change.type = "add" /\ ph = "positioning" THEN FALSE
        ELSE TRUE)

\* the variables of the chained-setTimeout display, in a specification
\* without it
ChainIdle ==
    /\ chainAnimating = FALSE
    /\ animationPhase = "idle"
    /\ chainTimers = {}
    /\ chainRun = 0
    /\ lastFired = NoTimer

\* the variables of the tokenizer, in a specification that does not run it
TokIdle ==
    /\ language = <<>>
    /\ code = <<>>
    /\ tokens = <<>>
    /\ tokenCache = {}
    /\ globalTokenCounter = 0
    /\ returned = <<>>

\* the variables of the diff, in a specification that does not run it
DiffIdle == oldTokens = <<>> /\ newTokens = <<>> /\ diff = <<>>

\* the variables of the highlight mapper, in a specification that does not run it
HlIdle == hlTokens = <<>> /\ highlights = <<>> /\ hlResult = <<>>

\* the variables of the phase function, in a specification that does not poll it
PhaseIdle ==
    /\ timings = ANIMATION_TIMINGS
    /\ animationStart = 0
    /\ currentTime = 0
    /\ phase = "positioning"

-----------------------------------------------------------------------------
(* SpecTok: one call of tokenizeCode in a freshly loaded module, on every  *)
(* source of at most MaxLen characters                                      *)

HtmlAlphabet == {"<", "/", ">", "a", " ", "=", "\""}

JsAlphabet == {"/", "*", "\"", "\\", "a", "1", "=", "\n"}

CssAlphabet == {"/", "*", "'", "a", "1", "#", " "}

Strings(alphabet, n) == UNION {[1..k -> alphabet] : k \in 0..n}

TokInputs ==
    ({LangHtml} \X Strings(HtmlAlphabet, MaxLen))
      \cup ({LangJavascript} \X Strings(JsAlphabet, MaxLen))
      \cup ({LangCss} \X Strings(CssAlphabet, MaxLen))

TokInit ==
    /\ pc = "ready"
    /\ \E in \in TokInputs : language = in[1] /\ code = in[2]
    /\ tokens = <<>>
    /\ tokenCache = {}
    /\ globalTokenCounter = 0
    /\ returned = <<>>
    /\ DiffIdle /\ HlIdle /\ PhaseIdle /\ AnimIdle /\ ChainIdle /\ DisplayIdle

TokCall ==
    /\ pc = "ready"
    /\ Call(language, code)
    /\ pc' = "done"
    /\ UNCHANGED <<language, code>>
    /\ UNCHANGED <<diffVars, hlVars, phaseVars, animVars, chainVars, displayVars>>

TokNext == TokCall

SpecTok == TokInit /\ [][TokNext]_vars

-----------------------------------------------------------------------------
(* SpecCache: up to MaxCalls calls of tokenizeCode in one module instance *)

CacheInputs ==
    {LangHtml, LangJavascript}
      \X {<<>>, <<"a">>, <<"a", " ">>, <<"<", "a", ">">>}

CacheInit ==
    /\ pc = "ready"
    /\ language = LangHtml
    /\ code = <<>>
    /\ tokens = <<>>
    /\ tokenCache = {}
    /\ globalTokenCounter = 0
    /\ returned = <<>>
    /\ DiffIdle /\ HlIdle /\ PhaseIdle /\ AnimIdle /\ ChainIdle /\ DisplayIdle

CacheCall ==
    /\ pc = "ready"
    /\ Len(returned) < MaxCalls
    /\ \E in \in CacheInputs :
          /\ language' = in[1]
          /\ code' = in[2]
          /\ Call(in[1], in[2])
    /\ UNCHANGED pc
    /\ UNCHANGED <<diffVars, hlVars, phaseVars, animVars, chainVars, displayVars>>

CacheNext == CacheCall

SpecCache == CacheInit /\ [][CacheNext]_vars

-----------------------------------------------------------------------------
(* SpecDiff: one call of computeDiff on every pair of token arrays of at   *)
(* most MaxTokens tokens, and on the pair of testHtmlAttributeChange        *)

\* the (type, content) pairs the explored tokens are made of
DiffSignatures ==
    {[type |-> "text", content |-> <<"a">>],
     [type |-> "whitespace", content |-> <<" ">>],
     [type |-> "whitespace", content |-> <<"\n">>]}

\* token arrays over DiffSignatures; the k-th token of side has id <<side, k>>
TokenArrays(side, n) ==
    UNION {{[k \in 1..len |->
               [type |-> f[k].type, content |-> f[k].content, id |-> <<side, k>>]]
            : f \in [1..len -> DiffSignatures]} : len \in 0..n}

\* const oldCode = `<h1>Hello World</h1>`
ExampleOldCode ==
    <<"<","h","1",">","H","e","l","l","o"," ","W","o","r","l","d","<","/","h","1",">">>

\* const newCode = `<h1 class="header-text">Hello World</h1>`
ExampleNewCode ==
    <<"<","h","1"," ","c","l","a","s","s","=","\"","h","e","a","d","e","r","-","t","e","x","t","\"",">","H","e","l","l","o"," ","W","o","r","l","d","<","/","h","1",">">>

\* testHtmlAttributeChange: tokenizeCode(oldCode, "html"), then tokenizeCode(newCode, "html")
ExampleOldCall == tokenizeCode({}, 0, LangHtml, ExampleOldCode)

ExampleNewCall ==
    tokenizeCode(ExampleOldCall.cache, ExampleOldCall.counter, LangHtml, ExampleNewCode)

\* the tokens of "a a\na" and of "b ": the new " " has the same signature as
\* old token 1 and is whitespace like old token 3
TieOldTokens ==
    <<[type |-> "text", content |-> <<"a">>, id |-> <<"old", 1>>],
      [type |-> "whitespace", content |-> <<" ">>, id |-> <<"old", 2>>],
      [type |-> "text", content |-> <<"a">>, id |-> <<"old", 3>>],
      [type |-> "whitespace", content |-> <<"\n">>, id |-> <<"old", 4>>],
      [type |-> "text", content |-> <<"a">>, id |-> <<"old", 5>>]>>

TieNewTokens ==
    <<[type |-> "text", content |-> <<"b">>, id |-> <<"new", 1>>],
      [type |-> "whitespace", content |-> <<" ">>, id |-> <<"new", 2>>]>>

DiffInputs ==
    (TokenArrays("old", MaxTokens) \X TokenArrays("new", MaxTokens))
      \cup {<<ExampleOldCall.tokens, ExampleNewCall.tokens>>,
            <<TieOldTokens, TieNewTokens>>}

DiffInit ==
    /\ pc = "ready"
    /\ \E in \in DiffInputs : oldTokens = in[1] /\ newTokens = in[2]
    /\ diff = <<>>
    /\ TokIdle /\ HlIdle /\ PhaseIdle /\ AnimIdle /\ ChainIdle /\ DisplayIdle

DiffCall ==
    /\ pc = "ready"
    /\ diff' = computeDiff(oldTokens, newTokens)
    /\ pc' = "done"
    /\ UNCHANGED <<oldTokens, newTokens>>
    /\ UNCHANGED <<tokVars, hlVars, phaseVars, animVars, chainVars, displayVars>>

DiffNext == DiffCall

SpecDiff == DiffInit /\ [][DiffNext]_vars

-----------------------------------------------------------------------------
(* SpecHl: one call of applyManualHighlights *)

\* token arrays of at most n tokens of one or two characters
HlTokenArrays(n) ==
    UNION {{[k \in 1..len |-> [type |-> "text", content |-> f[k], id |-> <<"new", k>>]]
            : f \in [1..len -> {<<"a">>, <<"a", "b">>}]} : len \in 0..n}

\* the three tokens "ab", "cd", "ef" of the overlap scenario, and its range [1, 3)
AbCdEf ==
    <<[type |-> "text", content |-> <<"a", "b">>, id |-> <<"new", 1>>],
      [type |-> "text", content |-> <<"c", "d">>, id |-> <<"new", 2>>],
      [type |-> "text", content |-> <<"e", "f">>, id |-> <<"new", 3>>]>>

OneToThree == <<[start |-> 1, end |-> 3, type |-> "new"]>>

\* the single token "abc"
Abc == <<[type |-> "text", content |-> <<"a", "b", "c">>, id |-> <<"new", 1>>]>>

TotalLength(ts) == Len(Concat(ts))

\* lists of at most n ranges with both ends in lo..hi
RangeLists(n, lo, hi) ==
    UNION {[1..len -> [start : lo..hi, end : lo..hi, type : {"new"}]] : len \in 0..n}

HlInit ==
    /\ pc = "ready"
    /\ \/ /\ hlTokens \in HlTokenArrays(MaxHlTokens)
          /\ highlights \in RangeLists(MaxRanges, 0, TotalLength(hlTokens) + 1)
       \/ hlTokens = AbCdEf /\ highlights = OneToThree
       \/ hlTokens = Abc /\ highlights \in RangeLists(1, -1, TotalLength(Abc) + 1)
    /\ hlResult = <<>>
    /\ TokIdle /\ DiffIdle /\ PhaseIdle /\ AnimIdle /\ ChainIdle /\ DisplayIdle

HlCall ==
    /\ pc = "ready"
    /\ hlResult' = applyManualHighlights(hlTokens, highlights)
    /\ pc' = "done"
    /\ UNCHANGED <<hlTokens, highlights>>
    /\ UNCHANGED <<tokVars, diffVars, phaseVars, animVars, chainVars, displayVars>>

HlNext == HlCall

SpecHl == HlInit /\ [][HlNext]_vars

-----------------------------------------------------------------------------
(* SpecPhase: getCurrentAnimationPhase polled as time passes *)

PhaseInit ==
    /\ pc = "ready"
    /\ timings \in {ANIMATION_TIMINGS, NoPauseTimings}
    /\ animationStart \in {0, 250}
    /\ currentTime = animationStart
    /\ phase = getCurrentAnimationPhase(animationStart, animationStart, timings)
    /\ TokIdle /\ DiffIdle /\ HlIdle /\ AnimIdle /\ ChainIdle /\ DisplayIdle

\* a poll dt milliseconds after the last one
Poll ==
    /\ \E dt \in {1, 99, 500} :
          /\ currentTime + dt - animationStart <= MaxElapsed
          /\ currentTime' = currentTime + dt
    /\ phase' = getCurrentAnimationPhase(currentTime', animationStart, timings)
    /\ UNCHANGED <<pc, timings, animationStart>>
    /\ UNCHANGED <<tokVars, diffVars, hlVars, animVars, chainVars, displayVars>>

PhaseNext == Poll

SpecPhase == PhaseInit /\ [][PhaseNext]_vars

-----------------------------------------------------------------------------
(* SpecAnim: App with a current project of at most MaxStates states, its   *)
(* user and its auto-play interval, around the modular AnimatedCodeDisplay *)
(* and its completion timer; time passes in steps of TickStep              *)

AnimInit ==
    /\ pc = "anim"
    /\ numStates \in 0..MaxStates
    /\ currentStateIndex = 0
    /\ isPlaying = FALSE
    /\ isAnimating = FALSE
    /\ timers = <<>>
    /\ runElapsed = 0
    /\ completions = 0
    /\ TokIdle /\ DiffIdle /\ HlIdle /\ PhaseIdle /\ ChainIdle /\ DisplayIdle

\* what no step of App or the display touches
AnimFrame == UNCHANGED <<pc, tokVars, diffVars, hlVars, phaseVars, chainVars, displayVars>>

\* setIsAnimating(true) with the move to state index, and the commit that
\* follows
StartRun(index) ==
    /\ isAnimating' = TRUE
    /\ currentStateIndex' = index
    /\ runElapsed' = 0
    /\ completions' = 0
    /\ timers' = DisplayEffect(timers, TRUE, Mounted(numStates))

\* goToState(index), from the timeline or the previous / next buttons
goToState ==
    /\ ~isAnimating
    /\ \E index \in 0..MaxOf(0, numStates - 1) : StartRun(index)
    /\ UNCHANGED <<numStates, isPlaying>>
    /\ AnimFrame

\* the callback of the auto-play interval
AutoPlay ==
    /\ isPlaying /\ ~isAnimating
    /\ IF currentStateIndex < numStates - 1
       THEN StartRun(currentStateIndex + 1) /\ UNCHANGED isPlaying
       ELSE /\ isPlaying' = FALSE
            /\ timers' = DisplayEffect(timers, isAnimating, Mounted(numStates))
            /\ UNCHANGED <<currentStateIndex, isAnimating, runElapsed, completions>>
    /\ UNCHANGED numStates
    /\ AnimFrame

\* onPlayPause: setIsPlaying(!isPlaying)
PlayPause ==
    /\ isPlaying' = ~isPlaying
    /\ timers' = DisplayEffect(timers, isAnimating, Mounted(numStates))
    /\ UNCHANGED <<numStates, currentStateIndex, isAnimating, runElapsed, completions>>
    /\ AnimFrame

\* handleStateSave: the editor saves a new state (the project grows) or an
\* edited one
handleStateSave ==
    /\ \E created \in BOOLEAN :
          /\ created => numStates < MaxStates
          /\ ~created => numStates > 0
          /\ numStates' = IF created THEN numStates + 1 ELSE numStates
    /\ timers' = DisplayEffect(timers, isAnimating, Mounted(numStates'))
    /\ UNCHANGED <<currentStateIndex, isPlaying, isAnimating, runElapsed, completions>>
    /\ AnimFrame

\* deleteState(stateId)
deleteState ==
    /\ numStates > 0
    /\ numStates' = numStates - 1
    /\ currentStateIndex' = MaxOf(0, IF currentStateIndex < numStates - 2
                                     THEN currentStateIndex ELSE numStates - 2)
    /\ timers' = DisplayEffect(timers, isAnimating, Mounted(numStates'))
    /\ UNCHANGED <<isPlaying, isAnimating, runElapsed, completions>>
    /\ AnimFrame

\* TickStep ms pass; a timer that is due fires before more time passes
Tick ==
    /\ isAnimating \/ timers # <<>>
    /\ runElapsed < MaxRunElapsed
    /\ \A k \in DOMAIN timers : timers[k] > 0
    /\ runElapsed' = runElapsed + TickStep
    /\ timers' = [k \in DOMAIN timers |-> MaxOf(0, timers[k] - TickStep)]
    /\ UNCHANGED <<numStates, currentStateIndex, isPlaying, isAnimating, completions>>
    /\ AnimFrame

\* a completeTimer runs out: onAnimationComplete(), which is
\* handleAnimationComplete: setIsAnimating(false), and the commit that follows
\* when that changes the state
TimerFires ==
    /\ \E k \in DOMAIN timers :
          /\ timers[k] = 0
          /\ timers' = IF isAnimating
                       THEN DisplayEffect(RemoveAt(timers, k), FALSE, Mounted(numStates))
                       ELSE RemoveAt(timers, k)
    /\ completions' = completions + 1
    /\ isAnimating' = FALSE
    /\ UNCHANGED <<numStates, currentStateIndex, isPlaying, runElapsed>>
    /\ AnimFrame

AnimNext ==
    \/ goToState
    \/ AutoPlay
    \/ PlayPause
    \/ handleStateSave
    \/ deleteState
    \/ Tick
    \/ TimerFires

SpecAnim == AnimInit /\ [][AnimNext]_vars

\* Time passes and a timer that is due runs its callback: the event loop
\* leaves neither undone forever.  Nothing obliges the user to act.
AnimFairness == WF_vars(Tick) /\ WF_vars(TimerFires)

SpecAnimFair == SpecAnim /\ AnimFairness

-----------------------------------------------------------------------------
(* SpecChain: the chained-setTimeout AnimatedCodeDisplay under a parent    *)
(* that starts and stops animations and renders again with a new           *)
(* onAnimationComplete; time passes in steps of TickStep                    *)

ChainInit ==
    /\ pc = "chain"
    /\ ChainIdle
    /\ TokIdle /\ DiffIdle /\ HlIdle /\ PhaseIdle /\ AnimIdle /\ DisplayIdle

\* what no step of the chained-setTimeout display touches
ChainFrame == UNCHANGED <<pc, tokVars, diffVars, hlVars, phaseVars, animVars, displayVars>>

\* the parent sets isAnimating to true
ChainStart ==
    /\ ~chainAnimating
    /\ chainRun < MaxChainRuns
    /\ chainAnimating' = TRUE
    /\ ChainEffect(TRUE)
    /\ lastFired' = NoTimer
    /\ ChainFrame

\* the parent sets isAnimating to false
ChainStop ==
    /\ chainAnimating
    /\ chainAnimating' = FALSE
    /\ ChainEffect(FALSE)
    /\ lastFired' = NoTimer
    /\ ChainFrame

\* the parent renders again and passes a new onAnimationComplete
ChainRerender ==
    /\ chainAnimating => chainRun < MaxChainRuns
    /\ ChainEffect(chainAnimating)
    /\ lastFired' = NoTimer
    /\ UNCHANGED chainAnimating
    /\ ChainFrame

\* TickStep ms pass; a timer that is due fires before more time passes
ChainTick ==
    /\ chainTimers # {}
    /\ \A t \in chainTimers : t.delay > 0
    /\ chainTimers' = {[t EXCEPT !.delay = MaxOf(0, t.delay - TickStep)] : t \in chainTimers}
    /\ lastFired' = NoTimer
    /\ UNCHANGED <<chainAnimating, animationPhase, chainRun>>
    /\ ChainFrame

\* the outer timer runs out: setAnimationPhase("adding") and the inner
\* setTimeout
AddingTimerFires ==
    /\ \E t \in chainTimers :
          /\ t.kind = "adding" /\ t.delay = 0
          /\ chainTimers' = (chainTimers \ {t}) \cup {CompleteTimer(t.run)}
          /\ lastFired' = t
    /\ animationPhase' = "adding"
    /\ UNCHANGED <<chainAnimating, chainRun>>
    /\ ChainFrame

\* the inner timer runs out: setAnimationPhase("complete") and
\* onAnimationComplete(), the parent's setIsAnimating(false); when that
\* changes isAnimating the effect runs again at the commit
CompleteTimerFires ==
    /\ \E t \in chainTimers :
          /\ t.kind = "complete" /\ t.delay = 0
          /\ chainTimers' = chainTimers \ {t}
          /\ lastFired' = t
    /\ animationPhase' = IF chainAnimating THEN "idle" ELSE "complete"
    /\ chainAnimating' = FALSE
    /\ UNCHANGED chainRun
    /\ ChainFrame

ChainNext ==
    \/ ChainStart
    \/ ChainStop
    \/ ChainRerender
    \/ ChainTick
    \/ AddingTimerFires
    \/ CompleteTimerFires

SpecChain == ChainInit /\ [][ChainNext]_vars

-----------------------------------------------------------------------------
(* SpecDisplay: one render of the modular AnimatedCodeDisplay in a freshly *)
(* loaded page, for a choice of its props                                   *)

RECURSIVE Repeated(_)
\* "a" followed by n times " a"
Repeated(n) == IF n = 0 THEN <<"a">> ELSE Repeated(n - 1) \o <<" ", "a">>

PreviousCodes ==
    { <<>>, <<"a">>, <<"a"," ","b">>, <<"a","\n","b">>, <<"<","a",">">>,
      <<"l","e","t"," ","a">> }

CurrentCodes ==
    { <<"a">>, <<"b"," ","a">>, <<"a","\n","b"," ","b">>, <<"<","a",">">>,
      <<"<","a",">","b">>, <<"l","e","t"," ","a">>,
      <<"a","\n">>, <<"a","\n","\n","b">>, <<"a","\n","\n">>, <<"\n">> }
      \cup {Repeated(n) : n \in 1..MaxRepeat}

ManualHighlightChoices == { <<>>, <<[start |-> 0, end |-> 1]>> }

DisplayInit ==
    /\ pc = "ready"
    /\ previousCode \in PreviousCodes
    /\ currentCode \in CurrentCodes
    /\ displayAnimating \in BOOLEAN
    /\ useManualHighlightsOnly \in BOOLEAN
    /\ manualHighlights \in ManualHighlightChoices
    /\ providedLanguage \in {LangHtml, LangCss, LangJavascript}
    /\ diffResult = <<>>
    /\ renderTokens = <<>>
    /\ rendered = <<>>
    /\ TokIdle /\ DiffIdle /\ HlIdle /\ PhaseIdle /\ AnimIdle /\ ChainIdle

\* the JSX returned: the lines of renderTokens r
RenderJsx(tc, d, r) ==
    /\ tokenCache' = tc.cache
    /\ globalTokenCounter' = tc.counter
    /\ diffResult' = d
    /\ renderTokens' = r
    /\ rendered' = RenderedLines(r, displayAnimating)

\* the memo renderTokens, from the diffResult d
RenderMarked(tc, d) == RenderJsx(tc, d, RenderTokensOf(d, useManualHighlightsOnly))

\* the memo diffResult, from the tokenizedCodes tc
RenderWith(tc) ==
    RenderMarked(tc, DiffResultOf(previousCode, currentCode, displayAnimating, tc))

\* the render of the display with the props at hand
Render ==
    /\ pc = "ready"
    /\ pc' = "done"
    /\ RenderWith(tokenizedCodes(tokenCache, globalTokenCounter, previousCode, currentCode))
    /\ UNCHANGED <<previousCode, currentCode, displayAnimating, useManualHighlightsOnly,
                   manualHighlights, providedLanguage>>
    /\ UNCHANGED <<language, code, tokens, returned>>
    /\ UNCHANGED <<diffVars, hlVars, phaseVars, animVars, chainVars>>

DisplayNext == Render

SpecDisplay == DisplayInit /\ [][DisplayNext]_vars

-----------------------------------------------------------------------------
(* C1 *)

\* C1: concatenating the content fields of tokenizeCode(source, language), in
\* order, yields exactly source, for every language tag and every source.
RoundTrip == pc = "done" => Concat(tokens) = code

-----------------------------------------------------------------------------
(* C2, C3, C6, C7: computeDiff *)

HasOldIndex(t) == "oldIndex" \in DOMAIN t

\* the output tokens that stand for old index i / for new index j
ForOld(i) == {k \in DOMAIN diff : HasOldIndex(diff[k]) /\ diff[k].oldIndex = i}

ForNew(j) == {k \in DOMAIN diff : diff[k].newIndex = j}

WithStatus(st) == {k \in DOMAIN diff : diff[k].status = st}

\* C2: every old index appears in exactly one output DiffToken (unchanged or
\* removed) and every new index in exactly one (unchanged or added).
DiffCoverage ==
    pc = "done" =>
      /\ \A i \in 0..(Len(oldTokens) - 1) :
            /\ Cardinality(ForOld(i)) = 1
            /\ \A k \in ForOld(i) : diff[k].status \in {"unchanged", "removed"}
      /\ \A j \in 0..(Len(newTokens) - 1) :
            /\ Cardinality(ForNew(j)) = 1
            /\ \A k \in ForNew(j) : diff[k].status \in {"unchanged", "added"}

\* C2 witness: a diff in which an old token is matched, another is removed and
\* a new token is added
DiffCoverageWitness ==
    /\ pc = "done"
    /\ WithStatus("unchanged") # {}
    /\ WithStatus("removed") # {}
    /\ WithStatus("added") # {}

\* C3: an unchanged DiffToken has oldIndex and newIndex and carries the id of
\* old[oldIndex], not that of new[newIndex]; an added one carries the id of
\* new[newIndex] and has no oldIndex.
IdentityPreserved ==
    pc = "done" =>
      \A k \in DOMAIN diff :
        /\ diff[k].status = "unchanged" =>
              /\ HasOldIndex(diff[k])
              /\ diff[k].oldIndex \in 0..(Len(oldTokens) - 1)
              /\ diff[k].newIndex \in 0..(Len(newTokens) - 1)
              /\ diff[k].id = oldTokens[diff[k].oldIndex + 1].id
              /\ diff[k].id # newTokens[diff[k].newIndex + 1].id
        /\ diff[k].status = "added" =>
              /\ ~HasOldIndex(diff[k])
              /\ diff[k].newIndex \in 0..(Len(newTokens) - 1)
              /\ diff[k].id = newTokens[diff[k].newIndex + 1].id

\* C3 witness: a diff with an unchanged token and an added token
IdentityPreservedWitness ==
    pc = "done" /\ WithStatus("unchanged") # {} /\ WithStatus("added") # {}

Signatures(ts) == [k \in DOMAIN ts |-> createContentSignature(ts[k])]

RECURSIVE IsSubsequence(_, _)
\* a is b with some elements left out
IsSubsequence(a, b) ==
    \/ a = <<>>
    \/ /\ b # <<>>
       /\ \/ (Head(a) = Head(b) /\ IsSubsequence(Tail(a), Tail(b)))
          \/ IsSubsequence(a, Tail(b))

IsExample == oldTokens = ExampleOldCall.tokens /\ newTokens = ExampleNewCall.tokens

\* C6: when the signatures of old are a subsequence of those of new, the diff
\* has no removed token, an unchanged token for every old token and
\* len(new) - len(old) added tokens; for <h1>Hello World</h1> against
\* <h1 class="header-text">Hello World</h1> the added tokens are the inserted
\* whitespace and class="header-text", and nothing else.
InsertionsOnly ==
    (pc = "done" /\ IsSubsequence(Signatures(oldTokens), Signatures(newTokens))) =>
      /\ WithStatus("removed") = {}
      /\ \A i \in 0..(Len(oldTokens) - 1) :
            \E k \in WithStatus("unchanged") : diff[k].oldIndex = i
      /\ Cardinality(WithStatus("added")) = Len(newTokens) - Len(oldTokens)
      /\ IsExample =>
            /\ WithStatus("added") = {2, 3}
            /\ diff[2].type = "whitespace" /\ diff[2].content = <<" ">>
            /\ diff[3].type = "attribute"
            /\ diff[3].content = SubSeq(ExampleNewCode, 5, 23)
            /\ WithStatus("unchanged") = {1, 4, 5, 6, 7, 8, 9}

\* C6 witness: the diff of the two <h1> sources
InsertionsOnlyWitness == pc = "done" /\ IsExample /\ Len(diff) = 9

\* C7: the output is len(new) entries in new-sequence order (the i-th with
\* newIndex = i, unchanged or added), then the unmatched old tokens as removed
\* entries in increasing oldIndex with newIndex = -1; old empty gives the new
\* tokens, all added, and new empty the old tokens, all removed, in order.
OutputOrder ==
    pc = "done" =>
      LET n == Len(newTokens)
          matched == {diff[k].oldIndex : k \in WithStatus("unchanged")}
      IN  /\ Len(diff) >= n
          /\ \A k \in 1..n :
                diff[k].newIndex = k - 1 /\ diff[k].status \in {"unchanged", "added"}
          /\ \A k \in (n + 1)..Len(diff) :
                /\ diff[k].status = "removed"
                /\ diff[k].newIndex = -1
                /\ diff[k].oldIndex \in 0..(Len(oldTokens) - 1)
                /\ diff[k].id = oldTokens[diff[k].oldIndex + 1].id
                /\ diff[k].content = oldTokens[diff[k].oldIndex + 1].content
                /\ k < Len(diff) => diff[k].oldIndex < diff[k + 1].oldIndex
          /\ {diff[k].oldIndex : k \in (n + 1)..Len(diff)}
               = (0..(Len(oldTokens) - 1)) \ matched
          /\ Len(oldTokens) = 0 =>
                /\ Len(diff) = n
                /\ \A k \in 1..n :
                      /\ diff[k].status = "added"
                      /\ diff[k].id = newTokens[k].id
                      /\ diff[k].content = newTokens[k].content
          /\ n = 0 =>
                /\ Len(diff) = Len(oldTokens)
                /\ \A k \in 1..Len(diff) : diff[k].oldIndex = k - 1

\* C7 witness: a diff with two removed tokens after an unchanged and an added one
OutputOrderWitness ==
    /\ pc = "done"
    /\ Cardinality(WithStatus("removed")) >= 2
    /\ WithStatus("unchanged") # {}
    /\ WithStatus("added") # {}

-----------------------------------------------------------------------------
(* C4, C5: the memo and the ids of tokenizeCode *)

SameCall(a, b) == a.language = b.language /\ a.code = b.code

SameKeySameResult ==
    \A i, j \in DOMAIN returned :
        SameCall(returned[i], returned[j]) => returned[i].tokens = returned[j].tokens

CacheKept == \A e \in tokenCache : e \in tokenCache'

\* C4: any two calls of tokenizeCode with the same (language, source) return
\* the same (type, content, id) sequence, and an entry of the memo is never
\* replaced, altered or evicted.
MemoStable == []SameKeySameResult /\ [][CacheKept]_vars

\* C4 witness: a pair tokenized twice, with a call for another pair in between
MemoStableWitness ==
    /\ Len(returned) = 3
    /\ SameCall(returned[1], returned[3])
    /\ ~SameCall(returned[1], returned[2])
    /\ returned[1].tokens # <<>>
    /\ returned[2].tokens # <<>>

\* what tokenizeCode returns for the pair in a module instance that has made
\* no call yet
FreshTokens(lang, src) == tokenizeCode({}, 0, lang, src).tokens

\* C5: the ids tokenizeCode assigns to a (language, source) pair depend on the
\* pair alone: a call after any history of earlier calls returns the tokens a
\* call with no history returns.
IdsIndependentOfHistory ==
    \A i \in DOMAIN returned :
        returned[i].tokens = FreshTokens(returned[i].language, returned[i].code)

-----------------------------------------------------------------------------
(* C8: applyManualHighlights *)

\* the sum of the content lengths of tokens 0..i-1 (i counted from 1 here)
TokenStart(ts, i) == TotalLength(SubSeq(ts, 1, i - 1))

TokenEnd(ts, i) == TokenStart(ts, i) + Len(ts[i].content)

Overlaps(ts, i, r) == TokenStart(ts, i) < r.end /\ TokenEnd(ts, i) > r.start

Flagged == {i \in DOMAIN hlResult : hlResult[i].isManuallyHighlighted}

\* C8: token i is flagged exactly when some range r has tokenStart_i < r.end
\* and tokenEnd_i > r.start, tokenStart_i being the summed length of the
\* tokens before it; no ranges flag nothing; the range [1, 3) over "ab", "cd",
\* "ef" flags the first two tokens only.
HighlightOverlap ==
    pc = "done" =>
      /\ Len(hlResult) = Len(hlTokens)
      /\ \A i \in DOMAIN hlTokens :
            /\ hlResult[i].content = hlTokens[i].content
            /\ hlResult[i].id = hlTokens[i].id
            /\ hlResult[i].isManuallyHighlighted
                 <=> \E k \in DOMAIN highlights : Overlaps(hlTokens, i, highlights[k])
      /\ highlights = <<>> => Flagged = {}
      /\ (hlTokens = AbCdEf /\ highlights = OneToThree) => Flagged = {1, 2}

\* C8 witness: two ranges out of order, the first token flagged by a range
\* that covers only a part of it, and a later token flagged too
HighlightOverlapWitness ==
    /\ pc = "done"
    /\ Len(highlights) = 2
    /\ highlights[1].start > highlights[2].start
    /\ Flagged = {1, 2}
    /\ Len(hlTokens[1].content) = 2
    /\ \A k \in DOMAIN highlights :
          Overlaps(hlTokens, 1, highlights[k]) => highlights[k].start = 1

-----------------------------------------------------------------------------
(* C9: getCurrentAnimationPhase *)

PhaseRank(ph) ==
    CASE ph = "positioning" -> 0
      [] ph = "pause" -> 1
      [] ph = "adding" -> 2
      [] ph = "complete" -> 3

PhaseRule ==
    LET elapsed == currentTime - animationStart
        D_pos == timings.POSITIONING_PHASE_DURATION
        D_pause == timings.PAUSE_BETWEEN_PHASES
        D_add == timings.ADDING_PHASE_DURATION
    IN  /\ elapsed < D_pos => phase = "positioning"
        /\ (D_pos <= elapsed /\ elapsed < D_pos + D_pause) => phase = "pause"
        /\ (D_pos + D_pause <= elapsed /\ elapsed < D_pos + D_pause + D_add)
              => phase = "adding"
        /\ D_pos + D_pause + D_add <= elapsed => phase = "complete"
        /\ D_pause = 0 => phase # "pause"

PhaseForward ==
    /\ PhaseRank(phase') >= PhaseRank(phase)
    /\ phase = "complete" => phase' = "complete"

\* C9: the phase returned is positioning, pause, adding or complete by the
\* three thresholds D_pos, D_pos + D_pause, D_pos + D_pause + D_add, compared
\* with <; the phase never moves backwards as time passes, complete is
\* terminal, and with D_pause = 0 pause is never returned.
PhaseSchedule == []PhaseRule /\ [][PhaseForward]_vars

\* C9 witness: with D_pause = 0, the poll at elapsed = D_pos returns adding
PhaseScheduleWitness ==
    /\ timings.PAUSE_BETWEEN_PHASES = 0
    /\ currentTime - animationStart = timings.POSITIONING_PHASE_DURATION
    /\ phase = "adding"

-----------------------------------------------------------------------------
(* C10: one onAnimationComplete per animation run *)

RunCount ==
    /\ isAnimating => completions = 0
    /\ completions <= 1

RunStep ==
    /\ completions' = completions + 1 =>
          /\ isAnimating /\ ~isAnimating'
          /\ getCurrentAnimationPhase(runElapsed, 0, ANIMATION_TIMINGS) = "complete"
    /\ (isAnimating /\ ~isAnimating') => completions' = 1
    /\ (~isAnimating /\ ~isAnimating') => completions' = completions

\* C10: a run (isAnimating true until it is false again) has no invocation of
\* onAnimationComplete while it lasts and exactly one when it ends; that
\* invocation happens at an elapsed time of the run that lies in the complete
\* phase, and no further one follows before the next run, whatever renders of
\* App, edits, deletions and remounts happen during the run.
OneCompletionPerRun == []RunCount /\ [][RunStep]_vars

\* C10 witness: a run that has ended with its one invocation after a render
\* of App during the run restarted the timer
OneCompletionPerRunWitness ==
    /\ pc = "anim"
    /\ ~isAnimating
    /\ completions = 1
    /\ timers = <<>>
    /\ runElapsed >= phases + TickStep

-----------------------------------------------------------------------------
(* C11, C12: superseded and stopped runs of the chained-setTimeout display *)

\* C11: a timer callback that runs belongs to the run the effect started
\* last: no phase change and no onAnimationComplete of a superseded run
\* happens after a new run has started.
SupersededRunSilent == lastFired # NoTimer => lastFired.run = chainRun

\* C12: while isAnimating is false the phase is idle: after a stop it is
\* idle at once and no adding or complete of the stopped run is applied.
StoppedStaysIdle == ~chainAnimating => animationPhase = "idle"

-----------------------------------------------------------------------------
(* C13, C14: the staggered reveal of added tokens in the modular display *)

\* the TokenComponents rendered for added tokens while animating
AddedReveals ==
    {r \in UNION {{rendered[l].tokens[i] : i \in DOMAIN rendered[l].tokens} :
                    l \in DOMAIN rendered} : r.props.mode = "added"}

\* C13: the reveal of every added token is over (its start delay plus
\* NEW_ELEMENT_DURATION) no later than the completion timer fires, phases ms
\* after the run starts.
RevealsEndBeforeCompletion ==
    pc = "done" => \A r \in AddedReveals : r.props.delay + r.props.duration <= phases

\* the number of added tokens before newIndex in the new sequence
AddedRank(newIndex) ==
    Cardinality({k \in DOMAIN renderTokens :
                    /\ renderTokens[k].status = "added"
                    /\ renderTokens[k].newIndex < newIndex})

\* C14: the n-th added token (counting added tokens only, in new-sequence
\* order) starts its reveal n * NEW_ELEMENT_STAGGER_DELAY after the adding
\* phase starts, POSITIONING_PHASE_DURATION + PAUSE_BETWEEN_PHASES into the run.
StaggerByAddedRank ==
    pc = "done" =>
        \A r \in AddedReveals :
            r.props.delay = (POSITIONING_PHASE_DURATION + PAUSE_BETWEEN_PHASES)
                              + AddedRank(r.token.newIndex) * NEW_ELEMENT_STAGGER_DELAY

-----------------------------------------------------------------------------
(* C15, C16, C18: the token stream of the modular display *)

\* the languages of a pair that the display treats as unrelated
Unrelated(a, b) ==
    {a, b} \in { {LangHtml, LangJavascript}, {LangHtml, LangTypescript},
                 {LangHtml, LangPython}, {LangPython, LangJavascript} }

\* ts is the tokens of currentCode, in order, every one unchanged
IsStaticCurrent(ts) ==
    LET cur == FreshTokens(detectLanguage(currentCode), currentCode)
    IN  /\ Len(ts) = Len(cur)
        /\ \A k \in DOMAIN cur :
              /\ ts[k].type = cur[k].type
              /\ ts[k].content = cur[k].content
              /\ ts[k].id = cur[k].id
              /\ ts[k].status = "unchanged"
              /\ ts[k].newIndex = k - 1

\* C15: when the languages detected for previousCode and currentCode are an
\* incompatible pair, the token stream is exactly the tokens of currentCode in
\* order, all unchanged, none added or removed, with isAnimating true or
\* false (the stream of the default mode, useManualHighlightsOnly not set).
LanguageChangeIsStatic ==
    (/\ pc = "done"
     /\ previousCode # <<>>
     /\ Unrelated(detectLanguage(previousCode), detectLanguage(currentCode)))
    => /\ IsStaticCurrent(diffResult)
       /\ ~useManualHighlightsOnly => IsStaticCurrent(renderTokens)

\* C15 witness: script before, markup now, rendered while animating
LanguageChangeIsStaticWitness ==
    /\ pc = "done"
    /\ displayAnimating
    /\ ~useManualHighlightsOnly
    /\ detectLanguage(previousCode) = LangJavascript
    /\ detectLanguage(currentCode) = LangHtml
    /\ Len(renderTokens) = 2

\* C16: with previousCode empty and currentCode not, every token of the
\* stream is added while isAnimating is true, and unchanged while it is false.
EmptyPreviousAllAdded ==
    (pc = "done" /\ previousCode = <<>> /\ currentCode # <<>>)
    => \A k \in DOMAIN diffResult :
          diffResult[k].status = IF displayAnimating THEN "added" ELSE "unchanged"

\* the tokens of ts that overlap a range of manualHighlights, in order
OverlappingTokens(ts) ==
    LET flagged == applyManualHighlights(ts, manualHighlights)
    IN  SelectSeq([k \in DOMAIN ts |-> [k |-> k, on |-> flagged[k].isManuallyHighlighted]],
                  LAMBDA e : e.on)

\* C18: with useManualHighlightsOnly set the visible stream is exactly the
\* tokens that overlap a manualHighlights range: none of them is dropped and
\* no other token is kept.
ManualOnlyKeepsOverlapping ==
    (pc = "done" /\ useManualHighlightsOnly)
    => LET kept == OverlappingTokens(diffResult)
       IN  /\ Len(renderTokens) = Len(kept)
           /\ \A i \in DOMAIN kept : renderTokens[i].id = diffResult[kept[i].k].id

-----------------------------------------------------------------------------
(* C17: unterminated strings and comments *)

\* a comment token opened by /* that has no closing */
OpenComment(t) ==
    /\ t.type = "comment"
    /\ Len(t.content) >= 2 /\ t.content[1] = "/" /\ t.content[2] = "*"
    /\ ~(/\ Len(t.content) >= 4
         /\ t.content[Len(t.content) - 1] = "*"
         /\ t.content[Len(t.content)] = "/")

\* a string token in which the opening quote does not occur again
OpenString(t) ==
    /\ t.type = "string"
    /\ \A i \in 2..Len(t.content) : t.content[i] # t.content[1]

\* C17: in the script and style-sheet scanners a string or comment that is
\* not closed is the last token of the output: its content runs from the
\* opener through the last character of the input.
UnterminatedRunsToEnd ==
    (pc = "done" /\ language \in {LangJavascript, LangCss})
    => \A k \in DOMAIN tokens :
          (OpenComment(tokens[k]) \/ OpenString(tokens[k])) => k = Len(tokens)

-----------------------------------------------------------------------------
(* C19: ranges that make no sense *)

\* a range with start > end, or wholly outside the text of ts
Nonsensical(r, ts) ==
    \/ r.start > r.end
    \/ r.start >= TotalLength(ts)
    \/ r.end <= 0

\* C19: when every supplied range is nonsensical (start > end) or lies wholly
\* outside the text (start >= total length, or end <= 0), no token is flagged.
NonsensicalRangesFlagNothing ==
    (pc = "done" /\ \A k \in DOMAIN highlights : Nonsensical(highlights[k], hlTokens))
    => Flagged = {}

-----------------------------------------------------------------------------
(* C20: ids within one output *)

\* C20: no two tokens of the output of one tokenizeCode call have the same
\* id, for every language and every source.
UniqueIds ==
    pc = "done" =>
        \A i, j \in DOMAIN tokens : tokens[i].id = tokens[j].id => i = j

\* C20 witness: an output with two tokens of the same type and content
UniqueIdsWitness ==
    /\ pc = "done"
    /\ \E i, j \in DOMAIN tokens :
          /\ i < j
          /\ tokens[i].type = tokens[j].type
          /\ tokens[i].content = tokens[j].content

-----------------------------------------------------------------------------
(* C21: what is visible before the adding phase *)

\* the adding phase of the current run has not begun: its outer timer is
\* pending and not yet due
BeforeAdding ==
    \E t \in chainTimers : t.kind = "adding" /\ t.run = chainRun /\ t.delay > 0

\* C21: from the start of a run until its adding phase begins, only unchanged
\* tokens are in the visible set.
OnlyUnchangedBeforeAdding ==
    (chainAnimating /\ BeforeAdding)
    => \A k \in DOMAIN visibleChanges(changes(chainAnimating), animationPhase) :
          visibleChanges(changes(chainAnimating), animationPhase)[k].type = "keep"

-----------------------------------------------------------------------------
(* C22: the language of the code state *)

\* C22: the language selected for a code state overrides auto-detection: the
\* display tokenizes currentCode with the language it is given.
ProvidedLanguageUsed ==
    pc = "done" => CacheHas(tokenCache, CacheKey(providedLanguage, currentCode))

-----------------------------------------------------------------------------
(* C23: the matching does not cross *)

\* the pairs <<oldIndex, newIndex>> of the unchanged tokens of the diff
MatchedPairs == {<<diff[k].oldIndex, diff[k].newIndex>> : k \in WithStatus("unchanged")}

\* the pairs p and q cross
Crosses(p, q) == (p[2] < q[2] /\ p[1] > q[1]) \/ (p[2] > q[2] /\ p[1] < q[1])

\* C23: the matching inside computeDiff is order-preserving: for unchanged
\* tokens a and b, a.newIndex < b.newIndex implies a.oldIndex < b.oldIndex.
MatchingOrderPreserved ==
    pc = "done" =>
        \A p, q \in MatchedPairs : p[2] < q[2] => p[1] < q[1]

\* C23 witness: a removed old token and an added new token match each other,
\* and pairing them would cross a pair of the matching
MatchingOrderPreservedWitness ==
    /\ pc = "done"
    /\ \E r \in WithStatus("removed"), a \in WithStatus("added") :
          /\ IsMatch(oldTokens[diff[r].oldIndex + 1], newTokens[diff[a].newIndex + 1])
          /\ \E q \in MatchedPairs : Crosses(<<diff[r].oldIndex, diff[a].newIndex>>, q)

-----------------------------------------------------------------------------
(* C24: the residual pass *)

\* the score of a pair as the fraction ScoreNum / ScoreDen:
\* 1 - |i - j * len(old) / len(new)| / max(len(old), len(new)), plus 0.2 when
\* the signatures are equal
ScoreDen(oldLen, newLen) == 5 * MaxOf(oldLen, newLen) * newLen

ScoreNum(oldIndex, newIndex, oldLen, newLen, exact) ==
    ScoreDen(oldLen, newLen)
      - 5 * Abs(oldIndex * newLen - newIndex * oldLen)
      + (IF exact THEN MaxOf(oldLen, newLen) * newLen ELSE 0)

\* the numerator of the score of old token i as a partner of new token j
RuleNum(old, new, i, j) ==
    ScoreNum(i, j, Len(old), Len(new),
             createContentSignature(old[i + 1]) = createContentSignature(new[j + 1]))

\* the old tokens new token j may be paired with, given the matches so far
Admissible(old, new, result, j) ==
    {i \in 0..(Len(old) - 1) :
        /\ i \notin UsedOldIndices(result)
        /\ IsMatch(old[i + 1], new[j + 1])
        /\ MaintainsOrder(result, i, j)
        /\ 10 * RuleNum(old, new, i, j) > 3 * ScoreDen(Len(old), Len(new))}

\* the highest score wins, ties go to the smallest old index
RuleChoice(old, new, result, j) ==
    LET adm == Admissible(old, new, result, j)
        top == {i \in adm : \A h \in adm : RuleNum(old, new, i, j) >= RuleNum(old, new, h, j)}
    IN  SetMin(top)

RECURSIVE RulePass(_, _, _, _)
\* the residual pass run by the rule, from new token j
RulePass(old, new, j, result) ==
    IF j >= Len(new) THEN result
    ELSE IF NewIsMatched(result, j) \/ Admissible(old, new, result, j) = {}
    THEN RulePass(old, new, j + 1, result)
    ELSE RulePass(old, new, j + 1, Append(result, Match(RuleChoice(old, new, result, j), j)))

\* the unchanged pairs the rule gives for the arguments of computeDiff
RulePairs ==
    LET r == RulePass(oldTokens, newTokens, 0, FirstPass(oldTokens, newTokens, 0, 0, <<>>))
    IN  {<<r[k].oldIndex, r[k].newIndex>> : k \in DOMAIN r}

\* C24: in the residual pass an unmatched new token j is paired with the
\* admissible old token (signatures equal or both whitespace, crossing no
\* match, score above 0.3) of the highest score, ties going to the smallest
\* old index.
ResidualPassByRule ==
    (pc = "done" /\ oldTokens # <<>> /\ newTokens # <<>>) => MatchedPairs = RulePairs

-----------------------------------------------------------------------------
(* C25: the scan loops advance *)

\* one iteration of the scan loop of the language at cursor i
LoopStep(lang, s, i) == IF lang = LangCss THEN CssStep(s, i) ELSE JsStep(s, i)

\* C25: each iteration of the script and style-sheet scan loops emits one
\* token with non-empty content and advances the cursor by the length of that
\* token, so the scan ends, no token is empty and there are at most as many
\* tokens as characters.
ScanAdvances ==
    (pc = "done" /\ language \in {LangJavascript, LangCss}) =>
      /\ \A i \in 0..(Len(code) - 1) :
            /\ Len(LoopStep(language, code, i)[1].content) >= 1
            /\ LoopStep(language, code, i)[2]
                 = i + Len(LoopStep(language, code, i)[1].content)
      /\ Len(tokens) <= Len(code)
      /\ \A k \in DOMAIN tokens : tokens[k].content # <<>>

\* C25 witness: a scan of several iterations, one of which takes more than
\* one character
ScanAdvancesWitness ==
    /\ pc = "done"
    /\ language \in {LangJavascript, LangCss}
    /\ Len(tokens) >= 2
    /\ \E k \in DOMAIN tokens : Len(tokens[k].content) >= 2

-----------------------------------------------------------------------------
(* C26: the lines of the display *)

RECURSIVE JoinFragments(_)
\* the contents of the fragments of one rendered line, joined
JoinFragments(fs) ==
    IF fs = <<>> THEN <<>> ELSE fs[1].token.content \o JoinFragments(Tail(fs))

RECURSIVE JoinLines(_)
\* the rendered lines joined with one newline between two lines
JoinLines(ls) ==
    IF ls = <<>> THEN <<>>
    ELSE IF Len(ls) = 1 THEN JoinFragments(ls[1].tokens)
    ELSE JoinFragments(ls[1].tokens) \o <<"\n">> \o JoinLines(Tail(ls))

\* the text without its last character when that is a newline
DropTrailingNewline(s) ==
    IF s # <<>> /\ s[Len(s)] = "\n" THEN SubSeq(s, 1, Len(s) - 1) ELSE s

\* the index in renderTokens of the token a fragment was cut from
TokenIndexOf(f) == CHOOSE k \in DOMAIN renderTokens : renderTokens[k].id = f.token.id

\* C26: splitTokensIntoLinesWithNumbers numbers its lines 1, 2, 3, ...,
\* emits no fragment with a newline, keeps the fragments in the order of their
\* tokens, and the lines joined with one newline are the concatenated token
\* contents without one trailing newline.
LinesReproduceContents ==
    pc = "done" =>
      /\ \A l \in DOMAIN rendered : rendered[l].lineNumber = l
      /\ \A l \in DOMAIN rendered : \A i \in DOMAIN rendered[l].tokens :
            \A c \in DOMAIN rendered[l].tokens[i].token.content :
               rendered[l].tokens[i].token.content[c] # "\n"
      /\ \A l1, l2 \in DOMAIN rendered :
            \A i1 \in DOMAIN rendered[l1].tokens : \A i2 \in DOMAIN rendered[l2].tokens :
               (l1 < l2 \/ (l1 = l2 /\ i1 < i2)) =>
                  TokenIndexOf(rendered[l1].tokens[i1]) <= TokenIndexOf(rendered[l2].tokens[i2])
      /\ JoinLines(rendered) = DropTrailingNewline(Concat(renderTokens))

\* C26 witness: tokens with an empty line in the middle and a newline at
\* the end
LinesReproduceContentsWitness ==
    /\ pc = "done"
    /\ Len(rendered) >= 2
    /\ \E l \in DOMAIN rendered : rendered[l].tokens = <<>>
    /\ Concat(renderTokens) # <<>>
    /\ Concat(renderTokens)[Len(Concat(renderTokens))] = "\n"

-----------------------------------------------------------------------------
(* C27: the copied text *)

\* C27: the code reconstructed from the diff of old and new is the
\* concatenation of the contents of the new tokens: removed tokens contribute
\* nothing and unchanged tokens contribute the content of the new token.
CopyYieldsCurrentCode ==
    pc = "done" => reconstructCodeFromTokens(diff) = Concat(newTokens)

\* C27 witness: a diff with a removed token and with an unchanged token whose
\* old content differs from its new content
CopyYieldsCurrentCodeWitness ==
    /\ pc = "done"
    /\ \E k \in DOMAIN diff : diff[k].status = "removed"
    /\ \E k \in DOMAIN diff :
          /\ diff[k].status = "unchanged"
          /\ diff[k].content # oldTokens[diff[k].oldIndex + 1].content

-----------------------------------------------------------------------------
(* C28: the ids of a diff *)

\* the ids of the tokens ts are pairwise distinct
DistinctIds(ts) == \A j, k \in DOMAIN ts : j # k => ts[j].id # ts[k].id

\* no id occurs in both ts and us
DisjointIds(ts, us) == \A j \in DOMAIN ts : \A k \in DOMAIN us : ts[j].id # us[k].id

\* C28: with ids pairwise distinct within old, pairwise distinct within new
\* and no id in both, the ids of the unchanged, added and removed tokens of
\* computeDiff(old, new) together are pairwise distinct.
DiffIdsDistinct ==
    (/\ pc = "done"
     /\ DistinctIds(oldTokens) /\ DistinctIds(newTokens)
     /\ DisjointIds(oldTokens, newTokens)) => DistinctIds(diff)

\* C28 witness: a diff with an unchanged, an added and a removed token
DiffIdsDistinctWitness ==
    /\ pc = "done"
    /\ DistinctIds(oldTokens) /\ DistinctIds(newTokens)
    /\ DisjointIds(oldTokens, newTokens)
    /\ \A st \in {"unchanged", "added", "removed"} :
          \E k \in DOMAIN diff : diff[k].status = st

-----------------------------------------------------------------------------
(* C29: the time of the completion *)

\* C29: the run of the modular display ends, by its onAnimationComplete,
\* exactly phases ms after it started, whatever renders of App happen during
\* the run.
CompletesAtTotal == [][(isAnimating /\ ~isAnimating') => runElapsed = phases]_vars

-----------------------------------------------------------------------------
(* C30: the end of a run *)

\* C30: whenever isAnimating is true it is false again later, whatever the
\* user does during the run: navigation is not blocked forever.
AnimationEnds == isAnimating ~> ~isAnimating

=============================================================================
